---- MODULE Spec2Model ----
(***************************************************************************)
(* Model of the relidler build-and-publish engine (src/libs/sdk/sdk-mod.ts) *)
(* One build cycle of relidler(): configuration merge, cleanup, version    *)
(* bump, main project build/publish, library build/publish, finalize.      *)
(* Version strings are sequences of one-character strings.                 *)
(***************************************************************************)
EXTENDS Integers, Sequences, FiniteSets, TLC

(***************************************************************************)
(* Bounds of the model                                                     *)
(***************************************************************************)
\* longest version string drawn as an input of the version specification
MaxVerLen == 5
\* largest number of CPU cores reported by os.cpus()
MaxCpus == 4

(***************************************************************************)
(* Version strings and the semver operations used by the bump engine       *)
(***************************************************************************)
Digits == <<"0", "1", "2", "3", "4", "5", "6", "7", "8", "9">>

DigitChars == {Digits[i] : i \in 1..10}

\* the numeric value of one digit character
DigitVal(c) == (CHOOSE i \in 1..10 : Digits[i] = c) - 1

\* positions of the character c in the string s
Positions(s, c) == {i \in 1..Len(s) : s[i] = c}

\* a numeric identifier: digits only, no leading zero (semver NUMERICIDENTIFIER)
IsNumericId(s) ==
    /\ Len(s) >= 1
    /\ \A i \in 1..Len(s) : s[i] \in DigitChars
    /\ (Len(s) > 1 => s[1] # "0")

RECURSIVE ParseNat(_)
ParseNat(s) ==
    IF Len(s) = 0 THEN 0
    ELSE 10 * ParseNat(SubSeq(s, 1, Len(s) - 1)) + DigitVal(s[Len(s)])

RECURSIVE FormatNat(_)
FormatNat(n) ==
    IF n < 10 THEN <<Digits[n + 1]>>
    ELSE FormatNat(n \div 10) \o <<Digits[(n % 10) + 1]>>

\* the part of a version string before the first "-" (MAJOR.MINOR.PATCH)
MainPart(s) ==
    IF Positions(s, "-") = {} THEN s
    ELSE SubSeq(s, 1, (CHOOSE i \in Positions(s, "-") :
                          \A j \in Positions(s, "-") : i <= j) - 1)

\* the prerelease part after the first "-" (empty when there is none)
PrePart(s) ==
    IF Positions(s, "-") = {} THEN <<>>
    ELSE SubSeq(s, (CHOOSE i \in Positions(s, "-") :
                       \A j \in Positions(s, "-") : i <= j) + 1, Len(s))

\* a prerelease identifier list: dot-separated, non-empty, numeric
\* identifiers without leading zero or identifiers containing "-"
IsPrerelease(s) ==
    /\ Len(s) >= 1
    /\ s[1] # "." /\ s[Len(s)] # "."
    /\ \A i \in 1..(Len(s) - 1) : ~(s[i] = "." /\ s[i + 1] = ".")
    /\ \A i \in 1..Len(s) : s[i] \in DigitChars \cup {".", "-"}
    /\ \A i \in 1..Len(s) :
          \* a numeric identifier of more than one digit must not start with 0
          (/\ s[i] = "0"
           /\ (i = 1 \/ s[i - 1] = ".")
           /\ i < Len(s) /\ s[i + 1] # ".")
          => \E j \in (i + 1)..Len(s) :
                /\ s[j] = "-"
                /\ \A k \in i..j : s[k] # "."

\* the three numeric components of MAJOR.MINOR.PATCH, or <<>> when malformed
Components(m) ==
    LET dots == Positions(m, ".") IN
    IF Cardinality(dots) # 2 THEN <<>>
    ELSE LET d1 == CHOOSE i \in dots : \A j \in dots : i <= j
             d2 == CHOOSE i \in dots : \A j \in dots : j <= i
             a  == SubSeq(m, 1, d1 - 1)
             b  == SubSeq(m, d1 + 1, d2 - 1)
             c  == SubSeq(m, d2 + 1, Len(m))
         IN IF IsNumericId(a) /\ IsNumericId(b) /\ IsNumericId(c)
            THEN <<ParseNat(a), ParseNat(b), ParseNat(c)>>
            ELSE <<>>

\* semver.valid(v): truthy exactly for a well-formed version
SemverValid(s) ==
    /\ Components(MainPart(s)) # <<>>
    /\ (Positions(s, "-") # {} => IsPrerelease(PrePart(s)))

FormatVersion(ma, mi, pa) ==
    FormatNat(ma) \o <<".">> \o FormatNat(mi) \o <<".">> \o FormatNat(pa)

\* an increment that forgets to reset the lower components
SemverInc_noReset(s, release) ==
    LET c == Components(MainPart(s))
    IN CASE release = "patch" -> FormatVersion(c[1], c[2], c[3] + 1)
         [] release = "minor" -> FormatVersion(c[1], c[2] + 1, c[3])
         [] release = "major" -> FormatVersion(c[1] + 1, c[2], c[3])

\* semver.inc(v, release) for release in patch | minor | major
SemverInc(s, release) ==
    LET c   == Components(MainPart(s))
        pre == Positions(s, "-") # {}
    IN CASE release = "patch" ->
              FormatVersion(c[1], c[2], IF pre THEN c[3] ELSE c[3] + 1)
         [] release = "minor" ->
              FormatVersion(c[1],
                            IF c[3] # 0 \/ ~pre THEN c[2] + 1 ELSE c[2], 0)
         [] release = "major" ->
              FormatVersion(IF c[2] # 0 \/ c[3] # 0 \/ ~pre
                            THEN c[1] + 1 ELSE c[1], 0, 0)

BumpModes == {"autoPatch", "autoMinor", "autoMajor"}

releaseTypeMap(mode) ==
    CASE mode = "autoPatch" -> "patch"
      [] mode = "autoMinor" -> "minor"
      [] mode = "autoMajor" -> "major"

\* the outcome of autoIncrementVersion: a thrown error or the new version
autoIncrementVersion(oldVersion, mode) ==
    IF ~SemverValid(oldVersion)
    THEN [threw |-> TRUE, value |-> <<>>]
    ELSE [threw |-> FALSE,
          value |-> SemverInc(oldVersion, releaseTypeMap(mode))]


(***************************************************************************)
(* Configuration: stored config file, CLI flags, merged configuration      *)
(***************************************************************************)
Regs == {"npm", "jsr"}

LibNames == {"libA", "libB"}

Owners == {"main"} \cup LibNames

\* a distribution: (main project or library, registry)
Dists == Owners \X Regs

\* the project root directory (process.cwd() when the module is loaded)
PROJECT_ROOT == <<"root", ".">>

\* defaults used when no config file is present
DEFAULT_CONFIG ==
    [disableBump |-> FALSE, pausePublish |-> TRUE, registry |-> "npm",
     dryRun |-> FALSE, bump |-> "autoPatch",
     buildPublishMode |-> "main-project-only", libs |-> <<>>]

\* loadConfig(): the user's config file over the defaults; the disableBump
\* value is the token written in the file
LoadConfig(f) ==
    IF f.exists
    THEN [f.cfg EXCEPT !.disableBump =
              IF f.token = "none" THEN DEFAULT_CONFIG.disableBump
              ELSE f.token = "true"]
    ELSE DEFAULT_CONFIG

NoFlags == [dryRun |-> "undef", registry |-> "undef"]

\* a merge that forgets the development-mode override
getConfigWithCliFlags_noDev(isDev, flags, f) ==
    LET userConfig == LoadConfig(f)
        c1 == IF flags.dryRun # "undef"
              THEN [userConfig EXCEPT !.dryRun = (flags.dryRun = "true")]
              ELSE userConfig
    IN IF flags.registry # "undef"
          /\ flags.registry \in {"npm", "jsr", "npm-jsr"}
       THEN [c1 EXCEPT !.registry = flags.registry]
       ELSE c1

getConfigWithCliFlags(isDev, flags, f) ==
    LET userConfig == LoadConfig(f)
        c1 == IF flags.dryRun # "undef"
              THEN [userConfig EXCEPT !.dryRun = (flags.dryRun = "true")]
              ELSE userConfig
        c2 == IF flags.registry # "undef"
                 /\ flags.registry \in {"npm", "jsr", "npm-jsr"}
              THEN [c1 EXCEPT !.registry = flags.registry]
              ELSE c1
    IN IF isDev
       THEN [c2 EXCEPT !.pausePublish = TRUE, !.disableBump = TRUE]
       ELSE c2

\* names of the configured libraries, in Object.entries order
LibOrder(c) == [i \in 1..Len(c.libs) |-> c.libs[i].name]

LibSet(c) == {c.libs[i].name : i \in 1..Len(c.libs)}

LibHasMain(c, l) == \E i \in 1..Len(c.libs) : c.libs[i].name = l /\ c.libs[i].main

(***************************************************************************)
(* Project files that may hold a version string                            *)
(***************************************************************************)
\* kind: file type by extension; ignored: under an IGNORE_PATTERNS directory;
\* inFilter: matched by the expansion of the default bumpFilter
ProjectFiles ==
    [pkg      |-> [kind |-> "json", ignored |-> FALSE, inFilter |-> TRUE],
     reliverse |-> [kind |-> "ts", ignored |-> FALSE, inFilter |-> TRUE],
     other    |-> [kind |-> "ts", ignored |-> FALSE, inFilter |-> FALSE],
     readme   |-> [kind |-> "md", ignored |-> FALSE, inFilter |-> FALSE],
     vendored |-> [kind |-> "json", ignored |-> TRUE, inFilter |-> TRUE]]

Paths == DOMAIN ProjectFiles

\* JSON_FILE_PATTERN: **/*.{ts,json,jsonc,json5}
JSON_FILE_PATTERN(p) == ProjectFiles[p].kind \in {"ts", "json"}

\* IGNORE_PATTERNS
IGNORE_PATTERNS(p) == ProjectFiles[p].ignored

\* the regular expression built from oldVer, in which "." matches any character
RegexMatches(oldVer, text) ==
    /\ Len(oldVer) = Len(text)
    /\ \A i \in 1..Len(text) : oldVer[i] = "." \/ oldVer[i] = text[i]

\* updateVersionInContent: does the file's version literal get rewritten
VersionChanged(p, literal, oldVersion) ==
    CASE ProjectFiles[p].kind = "json" ->
            literal = oldVersion /\ RegexMatches(oldVersion, literal)
      [] ProjectFiles[p].kind = "ts" -> RegexMatches(oldVersion, literal)
      [] OTHER -> FALSE

\* bumpVersions: the files selected by processFilesInDirectory
BumpCandidates(present) ==
    {p \in present : JSON_FILE_PATTERN(p) /\ ~IGNORE_PATTERNS(p)}

\* bumpVersions: the set of files rewritten, given the literals held
BumpedFiles(lits, present, oldVersion) ==
    {p \in BumpCandidates(present) : VersionChanged(p, lits[p], oldVersion)}

bumpVersions(lits, present, oldVersion, newVersion) ==
    [p \in Paths |->
        IF p \in BumpedFiles(lits, present, oldVersion)
        THEN newVersion ELSE lits[p]]

\* setBumpDisabled(value, isDev): the config file afterwards, and whether
\* the file was written
setBumpDisabled(value, isDev, f) ==
    LET config == getConfigWithCliFlags(isDev, NoFlags, f) IN
    IF config.pausePublish /\ value THEN [file |-> f, wrote |-> FALSE]
    ELSE IF ~f.exists THEN [file |-> f, wrote |-> FALSE]
    ELSE [file |-> IF f.token = "none" THEN f
                   ELSE [f EXCEPT !.token = IF value THEN "true" ELSE "false"],
          wrote |-> TRUE]

\* a bump handler that rewrites even when the version does not change
bumpHandler_noEqualityCheck(isDev, bumpFlag, f, lits, present) ==
    LET config == getConfigWithCliFlags(isDev, NoFlags, f)
        same   == [threw |-> FALSE, lits |-> lits, file |-> f,
                   wrote |-> {}, cfgWrote |-> FALSE]
        fatal  == [threw |-> TRUE, lits |-> lits, file |-> f,
                   wrote |-> {}, cfgWrote |-> FALSE]
        oldVersion == lits["pkg"]
        bumped(newVersion) ==
            LET sbd == setBumpDisabled(TRUE, isDev, f) IN
            [threw |-> FALSE,
             lits |-> bumpVersions(lits, present, oldVersion, newVersion),
             file |-> sbd.file,
             wrote |-> BumpedFiles(lits, present, oldVersion),
             cfgWrote |-> sbd.wrote]
    IN IF config.disableBump \/ config.pausePublish THEN same
       ELSE IF "pkg" \notin present THEN fatal
       ELSE IF oldVersion = <<>> THEN fatal
       ELSE IF bumpFlag # <<>>
            THEN IF ~SemverValid(bumpFlag) THEN fatal
                 ELSE bumped(bumpFlag)
            ELSE IF ~SemverValid(oldVersion) THEN fatal
                 ELSE LET inc == autoIncrementVersion(oldVersion, config.bump)
                      IN IF inc.threw THEN fatal ELSE bumped(inc.value)

\* bumpHandler(isDev, {bump}): outcome record
\*   threw: a fatal error was thrown; lits, file: the files afterwards;
\*   wrote: project files rewritten; cfgWrote: config file written
bumpHandler(isDev, bumpFlag, f, lits, present) ==
    LET config == getConfigWithCliFlags(isDev, NoFlags, f)
        same   == [threw |-> FALSE, lits |-> lits, file |-> f,
                   wrote |-> {}, cfgWrote |-> FALSE]
        fatal  == [threw |-> TRUE, lits |-> lits, file |-> f,
                   wrote |-> {}, cfgWrote |-> FALSE]
        oldVersion == lits["pkg"]
        bumped(newVersion) ==
            LET sbd == setBumpDisabled(TRUE, isDev, f) IN
            [threw |-> FALSE,
             lits |-> bumpVersions(lits, present, oldVersion, newVersion),
             file |-> sbd.file,
             wrote |-> BumpedFiles(lits, present, oldVersion),
             cfgWrote |-> sbd.wrote]
    IN IF config.disableBump \/ config.pausePublish THEN same
       ELSE IF "pkg" \notin present THEN fatal
       ELSE IF oldVersion = <<>> THEN fatal
       ELSE IF bumpFlag # <<>>
            THEN IF ~SemverValid(bumpFlag) THEN fatal
                 ELSE IF oldVersion # bumpFlag THEN bumped(bumpFlag)
                 ELSE same
            ELSE IF ~SemverValid(oldVersion) THEN fatal
                 ELSE LET inc == autoIncrementVersion(oldVersion, config.bump)
                      IN IF inc.threw THEN fatal
                         ELSE IF oldVersion # inc.value THEN bumped(inc.value)
                         ELSE same

\* a removal that forgets the libraries output directory
removeDistFolders_noLibs(existing, libs) == existing \ {"npm", "jsr"}

\* removeDistFolders: the output directories left after removal
removeDistFolders(existing, libs) ==
    existing \ ({"npm", "jsr"} \cup (IF Len(libs) > 0 THEN {"libs"} ELSE {}))

\* a concurrency that is the number of cores whatever the parallel flag
determineOptimalConcurrency_allCores(parallel, cpuCount) == cpuCount

\* determineOptimalConcurrency(argsBuilderConfig) with os.cpus().length = cpuCount
determineOptimalConcurrency(parallel, cpuCount) ==
    IF parallel = "false" THEN 1
    ELSE LET calculated == IF parallel = "true"
                           THEN (cpuCount * 3) \div 4
                           ELSE cpuCount \div 2
         IN IF calculated > 1 THEN calculated ELSE 1


(***************************************************************************)
(* State of one relidler() invocation                                      *)
(***************************************************************************)
VARIABLES
    pc,         \* stage of relidler(): start, cleanup, bump, main, libs,
                \* finalize, done, exit1 (handleBuildError) ; "ver" in SpecVer
    args,       \* CLI arguments
    file,       \* the build config file relidler.cfg.ts / .js
    config,     \* the CLI-merged configuration of relidler()
    cwd,        \* process.cwd()
    dirs,       \* existing output directories among npm, jsr, libs
    lits,       \* version literal held by each project file
    present,    \* project files that exist
    wrote,      \* project files rewritten by the bump of this cycle
    cfgWrites,  \* values written to the disableBump token in this cycle
    mainPhase,  \* processMainProject: idle, build, pub, done
    libst,      \* library task: none, idle, build, pub, done, skipped, failed
    libPool,    \* concurrency of the library pool
    libErr,     \* a library task failed and the failure was swallowed (dev)
    bst,        \* build of a distribution: none, run, done, failed
    pst,        \* publish of a distribution: none, load, run, done, failed
    att,        \* attempts of the publish command started so far
    orig,       \* originalDir saved by withWorkingDirectory
    vOld,       \* SpecVer: version string given to autoIncrementVersion
    vMode,      \* SpecVer: bump mode
    vRes,       \* SpecVer: result of autoIncrementVersion
    call,       \* arguments of the helper function called on its own
    ret         \* what that call returned or left on disk

vars == <<pc, args, file, config, cwd, dirs, lits, present, wrote, cfgWrites,
          mainPhase, libst, libPool, libErr, bst, pst, att, orig,
          vOld, vMode, vRes, call, ret>>

verVars == <<vOld, vMode, vRes, call, ret>>

\* no helper function is being called on its own
NoCall == [fn |-> "none"]

\* retries of pRetry in runCommand
Retries == 3

isDev == args.dev

\* the configuration a publish or library function reads with loadConfig()
Stored == LoadConfig(file)

\* pool size of the registry builds: argsBuilderConfig.parallel ? 2 : 1
BuildPool == IF args.parallel = "true" THEN 2 ELSE 1

\* the registry builds of one owner, in task order
BuildSeq(o) ==
    IF o = "main"
    THEN CASE config.registry = "npm-jsr" -> <<"jsr", "npm">>
           [] config.registry = "npm" -> <<"npm">>
           [] config.registry = "jsr" -> <<"jsr">>
           [] OTHER -> <<"npm", "jsr">>
    ELSE CASE Stored.registry = "npm-jsr" -> <<"npm", "jsr">>
           [] Stored.registry = "npm" -> <<"npm">>
           [] Stored.registry = "jsr" -> <<"jsr">>
           [] OTHER -> <<>>

\* the publish tasks of one owner, in task order
PubSeq(o) ==
    IF o = "main"
    THEN CASE config.registry = "npm-jsr" -> <<"jsr", "npm">>
           [] config.registry = "npm" -> <<"npm">>
           [] config.registry = "jsr" -> <<"jsr">>
           [] OTHER -> <<>>
    ELSE CASE Stored.registry = "npm-jsr" -> <<"npm", "jsr">>
           [] Stored.registry = "npm" -> <<"npm">>
           [] Stored.registry = "jsr" -> <<"jsr">>
           [] OTHER -> <<>>

\* the dry-run flag handed to the publish functions of one owner
DryOf(o) == IF o = "main" THEN config.dryRun ELSE Stored.dryRun

\* the command line of the publish task of distribution d: bun publish or
\* bunx jsr publish, with --dry-run when the dry flag of its caller is set
PublishCommand(d) ==
    [tool |-> IF d[2] = "jsr" THEN "bunx jsr publish" ELSE "bun publish",
     dryRunFlag |-> DryOf(d[1])]

Range(q) == {q[i] : i \in 1..Len(q)}

\* the first k elements of a sequence
FirstK(q, k) == {q[i] : i \in 1..(IF k < Len(q) THEN k ELSE Len(q))}

\* builds started when the build phase of owner o begins
StartBuilds(b, o) ==
    [d \in Dists |->
        IF d[1] = o /\ d[2] \in FirstK(BuildSeq(o), BuildPool)
        THEN "run" ELSE b[d]]

\* the next queued build of owner o, if any
QueuedBuilds(b, o) == {i \in 1..Len(BuildSeq(o)) : b[<<o, BuildSeq(o)[i]>>] = "none"}

\* does the library task of l reach a publish command
LibPublishes(l) == ~Stored.pausePublish /\ ~isDev /\ Len(PubSeq(l)) > 0

\* a library task that never looks at the main property of its library
LibStartState_noMainCheck(l) ==
    IF Len(BuildSeq(l)) = 0 THEN "done"
    ELSE "build"

\* state of a library task right after it has been started
LibStartState(l) ==
    IF ~LibHasMain(Stored, l) THEN "skipped"
    ELSE IF Len(BuildSeq(l)) = 0 THEN "done"
    ELSE "build"

\* the library pool: start queued tasks while a slot is free
RECURSIVE FillPool(_, _)
FillPool(st, k) ==
    LET order   == LibOrder(Stored)
        running == {l \in LibNames : st[l] \in {"build", "pub"}}
        queued  == {i \in 1..Len(order) : st[order[i]] = "idle"}
    IN IF Cardinality(running) >= k \/ queued = {} THEN st
       ELSE LET i == CHOOSE j \in queued : \A m \in queued : j <= m
            IN FillPool([st EXCEPT ![order[i]] = LibStartState(order[i])], k)

\* builds started for the library tasks that FillPool has just started
StartLibBuilds(b, stOld, stNew) ==
    [d \in Dists |->
        IF /\ d[1] \in LibNames
           /\ stOld[d[1]] = "idle" /\ stNew[d[1]] = "build"
           /\ d[2] \in FirstK(BuildSeq(d[1]), BuildPool)
        THEN "run" ELSE b[d]]

LibsFinished(st) == \A l \in LibNames : st[l] \notin {"idle", "build", "pub"}


(***************************************************************************)
(* Inputs of a cycle                                                       *)
(***************************************************************************)
V123 == <<"1", ".", "2", ".", "3">>

V200 == <<"2", ".", "0", ".", "0">>

VBad == <<"1", ".", "2">>

\* values of --bump: absent, the current version, another version, invalid
BumpFlags == {<<>>, V123, V200, VBad}

\* version field of package.json: absent, valid, invalid
PkgVersions == {<<>>, V123, VBad}

LibA == [name |-> "libA", main |-> TRUE]

LibB == [name |-> "libB", main |-> TRUE]

LibBNoMain == [name |-> "libB", main |-> FALSE]

LibConfigs == {<<>>, <<LibA>>, <<LibBNoMain, LibA>>, <<LibA, LibB>>}

\* the engine never runs two libraries for both registries at once in the
\* inputs drawn here: at most two publish tasks are in flight at a time
Curated(c) ==
    ~(c.registry = "npm-jsr" /\ c.libs = <<LibA, LibB>>)

UserConfigs(pauses, registries, dryRuns, bumps, modes, libConfigs) ==
    {c \in [disableBump : {FALSE},
            pausePublish : pauses,
            registry : registries,
            dryRun : dryRuns,
            bump : bumps,
            buildPublishMode : modes,
            libs : libConfigs] : Curated(c)}

\* config files: present with a disableBump token, or absent
Files(tokens, userConfigs) ==
    [exists : {TRUE}, token : tokens, cfg : userConfigs]

AbsentFile == [exists |-> FALSE, token |-> "none", cfg |-> DEFAULT_CONFIG]

Modes == {"main-project-only", "libs-only", "main-and-libs"}

\* the literals of the project files: every file holds the package version,
\* except that the file outside the bump filter may hold another version
Literals ==
    {[p \in Paths |-> IF p = "other" THEN w ELSE v] :
        v \in PkgVersions, w \in {V123, V200}}

NoTasks == [d \in Dists |-> "none"]

\* the state at the start of relidler() for given inputs
CycleStart(argsSet, fileSet, dirSets, literals, presentSets) ==
    /\ pc = "start"
    /\ args \in argsSet
    /\ file \in fileSet
    /\ config = DEFAULT_CONFIG
    /\ cwd = PROJECT_ROOT
    /\ dirs \in dirSets
    /\ lits \in literals
    /\ present \in presentSets
    /\ wrote = {}
    /\ cfgWrites = <<>>
    /\ mainPhase = "idle"
    /\ libst = [l \in LibNames |-> "none"]
    /\ libPool = 0
    /\ libErr = FALSE
    /\ bst = NoTasks
    /\ pst = NoTasks
    /\ att = [d \in Dists |-> 0]
    /\ orig = [d \in Dists |-> PROJECT_ROOT]

\* inputs of the pipeline specification
ArgsSet ==
    [dev : BOOLEAN,
     dryRun : {"undef", "true"},
     registry : {"undef", "jsr", "bogus"},
     bump : {<<>>},
     parallel : {"undef", "true", "false"}]

FileSet ==
    Files({"true", "false"},
          UserConfigs(BOOLEAN, {"npm", "npm-jsr", "bogus"}, BOOLEAN,
                      {"autoPatch"}, Modes, LibConfigs))
    \cup {AbsentFile}

CycleInit ==
    CycleStart(ArgsSet, FileSet, {{}, {"npm", "libs"}},
               {[p \in Paths |-> V123]}, {Paths})

VerIdle ==
    /\ vOld = <<>>
    /\ vMode = "autoPatch"
    /\ vRes = [threw |-> FALSE, value |-> <<>>]
    /\ call = NoCall
    /\ ret = NoCall

Init == CycleInit /\ VerIdle

\* inputs of the bump specification: every bump input, one library at most
BumpArgsSet ==
    [dev : BOOLEAN,
     dryRun : {"undef"},
     registry : {"undef"},
     bump : BumpFlags,
     parallel : {"undef"}]

BumpFileSet ==
    Files({"true", "false", "none"},
          UserConfigs(BOOLEAN, {"npm"}, {FALSE}, BumpModes,
                      {"main-and-libs"}, {<<>>, <<LibA>>}))
    \cup {AbsentFile}

BumpInit ==
    /\ CycleStart(BumpArgsSet, BumpFileSet, {{"npm", "libs"}}, Literals,
                  {Paths, Paths \ {"pkg"}})
    /\ VerIdle

(***************************************************************************)
(* relidler(): configuration, cleanup, bump                                *)
(***************************************************************************)
\* step 4 of relidler(): getConfigWithCliFlags(isDev, cliFlags)
LoadConfigStep ==
    /\ pc = "start"
    /\ config' = getConfigWithCliFlags(isDev,
                    [dryRun |-> args.dryRun, registry |-> args.registry], file)
    /\ pc' = "cleanup"
    /\ UNCHANGED <<args, file, cwd, dirs, lits, present, wrote, cfgWrites,
                   mainPhase, libst, libPool, libErr, bst, pst, att, orig, verVars>>

\* step 3 of relidler(): cleanupPreviousRun(config)
cleanupPreviousRun ==
    /\ pc = "cleanup"
    /\ dirs' = removeDistFolders(dirs, config.libs)
    /\ pc' = "bump"
    /\ UNCHANGED <<args, file, config, cwd, lits, present, wrote, cfgWrites,
                   mainPhase, libst, libPool, libErr, bst, pst, att, orig, verVars>>

\* step 5 of relidler(): if (!config.disableBump) bumpHandler(isDev, {bump})
BumpStage ==
    /\ pc = "bump"
    /\ IF config.disableBump
       THEN /\ pc' = "main"
            /\ UNCHANGED <<file, lits, wrote, cfgWrites>>
       ELSE LET r == bumpHandler(isDev, args.bump, file, lits, present) IN
            /\ pc' = IF r.threw THEN "exit1" ELSE "main"
            /\ file' = r.file
            /\ lits' = r.lits
            /\ wrote' = wrote \cup r.wrote
            /\ cfgWrites' = IF r.cfgWrote THEN Append(cfgWrites, "true")
                            ELSE cfgWrites
    /\ UNCHANGED <<args, config, cwd, dirs, present, mainPhase, libst,
                   libPool, libErr, bst, pst, att, orig, verVars>>


(***************************************************************************)
(* Task pools: registry builds, publish tasks, library tasks               *)
(***************************************************************************)
\* the library task of l ends (returns or throws): p-all starts queued tasks
LibTaskEnds(l, result, b) ==
    LET st1 == [libst EXCEPT ![l] = result]
        st2 == FillPool(st1, libPool)
    IN /\ libst' = st2
       /\ bst' = StartLibBuilds(b, st1, st2)
       /\ pc' = IF LibsFinished(st2) THEN "finalize" ELSE pc

\* withWorkingDirectory up to the first attempt of the command of runCommand
EnterWorkingDirectory(d) ==
    /\ orig' = [orig EXCEPT ![d] = cwd]
    /\ cwd' = d
    /\ att' = [att EXCEPT ![d] = 1]

\* processMainProject after its builds: the publish tasks are dispatched
AfterMainBuilds(b1) ==
    /\ bst' = b1
    /\ IF isDev \/ Len(PubSeq("main")) = 0
       THEN /\ mainPhase' = "done"
            /\ pc' = "libs"
            /\ UNCHANGED pst
       ELSE /\ mainPhase' = "pub"
            /\ pc' = pc
            /\ pst' = [d \in Dists |->
                          IF d[1] = "main" /\ d[2] \in Range(PubSeq("main"))
                          THEN "load" ELSE pst[d]]
    /\ UNCHANGED <<libst, libErr, att, orig, cwd>>

\* a library task after buildLibrary: publishLibrary unless paused
AfterLibBuilds(l, b1) ==
    IF LibPublishes(l)
    THEN /\ bst' = b1
         /\ libst' = [libst EXCEPT ![l] = "pub"]
         /\ pst' = [d \in Dists |->
                       IF d[1] = l /\ d[2] \in Range(PubSeq(l))
                       THEN (IF d[2] = "npm" THEN "run" ELSE "load")
                       ELSE pst[d]]
         /\ IF "npm" \in Range(PubSeq(l))
            THEN EnterWorkingDirectory(<<l, "npm">>)
            ELSE UNCHANGED <<orig, cwd, att>>
         /\ UNCHANGED <<pc, mainPhase, libErr>>
    ELSE /\ LibTaskEnds(l, "done", b1)
         /\ UNCHANGED <<mainPhase, libErr, pst, att, orig, cwd>>

\* a build phase that does not await the builds still running
BuildsRunning_noAwait(b, o) == FALSE

\* pAll of the registry builds of owner o is still awaiting a build
BuildsRunning(b, o) == \E r \in Regs : b[<<o, r>>] = "run"

OwnerBuilding(o) == IF o = "main" THEN mainPhase = "build" ELSE libst[o] = "build"

BuiltDir(d) == IF d[1] = "main" THEN {d[2]} ELSE {"libs"}

\* a registry build (regular_build*Dist, library_build*Dist) completes
BuildDone(d) ==
    /\ pc # "exit1"
    /\ bst[d] = "run"
    /\ dirs' = dirs \cup BuiltDir(d)
    /\ LET o       == d[1]
           b1      == [bst EXCEPT ![d] = "done"]
           queued  == QueuedBuilds(b1, o)
           running == BuildsRunning(b1, o)
       IN IF ~OwnerBuilding(o) \/ (queued = {} /\ running)
          THEN /\ bst' = b1
               /\ UNCHANGED <<pc, mainPhase, libst, libErr, pst, att, orig,
                              cwd>>
          ELSE IF queued # {}
          THEN /\ bst' = [b1 EXCEPT ![<<o, BuildSeq(o)[
                              CHOOSE i \in queued : \A j \in queued : i <= j]>>]
                              = "run"]
               /\ UNCHANGED <<pc, mainPhase, libst, libErr, pst, att, orig,
                              cwd>>
          ELSE IF o = "main" THEN AfterMainBuilds(b1)
          ELSE AfterLibBuilds(o, b1)
    /\ UNCHANGED <<args, file, config, lits, present, wrote, cfgWrites,
                   libPool, verVars>>

\* a failing registry build that never stops the cycle
BuildFail_continues(d) ==
    /\ pc # "exit1"
    /\ bst[d] = "run"
    /\ dirs' = dirs \cup BuiltDir(d)
    /\ LET o  == d[1]
           b1 == [bst EXCEPT ![d] = "failed"]
       IN IF ~OwnerBuilding(o)
          THEN /\ bst' = b1
               /\ UNCHANGED <<pc, libst, libErr>>
          ELSE IF o = "main"
          THEN /\ bst' = b1
               /\ pc' = "exit1"
               /\ UNCHANGED <<libst, libErr>>
          ELSE /\ LibTaskEnds(o, "failed", b1)
               /\ libErr' = TRUE
    /\ UNCHANGED <<args, file, config, lits, present, wrote, cfgWrites,
                   libPool, mainPhase, pst, att, orig, cwd, verVars>>

\* a registry build throws
BuildFail(d) ==
    /\ pc # "exit1"
    /\ bst[d] = "run"
    /\ dirs' = dirs \cup BuiltDir(d)
    /\ LET o  == d[1]
           b1 == [bst EXCEPT ![d] = "failed"]
       IN IF ~OwnerBuilding(o)
          THEN /\ bst' = b1
               /\ UNCHANGED <<pc, libst, libErr>>
          ELSE IF o = "main" \/ ~isDev
          THEN /\ bst' = b1
               /\ pc' = "exit1"
               /\ UNCHANGED <<libst, libErr>>
          ELSE /\ LibTaskEnds(o, "failed", b1)
               /\ libErr' = TRUE
    /\ UNCHANGED <<args, file, config, lits, present, wrote, cfgWrites,
                   libPool, mainPhase, pst, att, orig, cwd, verVars>>

\* all publish tasks of an owner have returned
OwnerPubSettle(o, p1) ==
    /\ pst' = p1
    /\ IF \A r \in Range(PubSeq(o)) : p1[<<o, r>>] = "done"
       THEN IF o = "main"
            THEN /\ mainPhase' = "done"
                 /\ pc' = "libs"
                 /\ UNCHANGED <<libst, bst>>
            ELSE /\ LibTaskEnds(o, "done", bst)
                 /\ UNCHANGED mainPhase
       ELSE UNCHANGED <<pc, mainPhase, libst, bst>>

\* a publish function resumes after its loadConfig()
PubLoaded(d) ==
    /\ pc # "exit1"
    /\ pst[d] = "load"
    /\ IF d[1] = "main" /\ Stored.pausePublish
       THEN /\ OwnerPubSettle(d[1], [pst EXCEPT ![d] = "done"])
            /\ UNCHANGED <<orig, cwd, att>>
       ELSE /\ EnterWorkingDirectory(d)
            /\ pst' = [pst EXCEPT ![d] = "run"]
            /\ UNCHANGED <<pc, mainPhase, libst, bst>>
    /\ UNCHANGED <<args, file, config, dirs, lits, present, wrote, cfgWrites,
                   libPool, libErr, verVars>>

\* the publish command succeeds: withWorkingDirectory restores originalDir
CmdOk(d) ==
    /\ pc # "exit1"
    /\ pst[d] = "run"
    /\ cwd' = orig[d]
    /\ orig' = [orig EXCEPT ![d] = PROJECT_ROOT]
    /\ att' = [att EXCEPT ![d] = 0]
    /\ OwnerPubSettle(d[1], [pst EXCEPT ![d] = "done"])
    /\ UNCHANGED <<args, file, config, dirs, lits, present, wrote, cfgWrites,
                   libPool, libErr, verVars>>

\* a failing publish command whose error is dropped after the last attempt
CmdFail_swallowed(d) ==
    /\ pc # "exit1"
    /\ pst[d] = "run"
    /\ IF att[d] < 1 + Retries
       THEN /\ att' = [att EXCEPT ![d] = att[d] + 1]
            /\ UNCHANGED <<pc, pst, cwd, orig>>
       ELSE /\ cwd' = orig[d]
            /\ orig' = [orig EXCEPT ![d] = PROJECT_ROOT]
            /\ att' = [att EXCEPT ![d] = 0]
            /\ pst' = [pst EXCEPT ![d] = "failed"]
            /\ pc' = pc
    /\ UNCHANGED <<args, file, config, dirs, lits, present, wrote, cfgWrites,
                   mainPhase, libst, libPool, libErr, bst, verVars>>

\* the publish command fails or times out: pRetry starts another attempt in
\* the current directory, or runCommand rethrows after the last one and
\* withWorkingDirectory restores originalDir
CmdFail(d) ==
    /\ pc # "exit1"
    /\ pst[d] = "run"
    /\ IF att[d] < 1 + Retries
       THEN /\ att' = [att EXCEPT ![d] = att[d] + 1]
            /\ UNCHANGED <<pc, pst, cwd, orig>>
       ELSE /\ cwd' = orig[d]
            /\ orig' = [orig EXCEPT ![d] = PROJECT_ROOT]
            /\ att' = [att EXCEPT ![d] = 0]
            /\ pst' = [pst EXCEPT ![d] = "failed"]
            /\ pc' = "exit1"
    /\ UNCHANGED <<args, file, config, dirs, lits, present, wrote, cfgWrites,
                   mainPhase, libst, libPool, libErr, bst, verVars>>

\* step 7 of relidler(): processMainProject up to the dispatch of its builds
processMainProject ==
    /\ pc = "main"
    /\ mainPhase = "idle"
    /\ IF config.buildPublishMode \notin {"main-project-only", "main-and-libs"}
       THEN /\ pc' = "libs"
            /\ mainPhase' = "done"
            /\ UNCHANGED bst
       ELSE /\ pc' = pc
            /\ mainPhase' = "build"
            /\ bst' = StartBuilds(bst, "main")
    /\ UNCHANGED <<args, file, config, cwd, dirs, lits, present, wrote,
                   cfgWrites, libst, libPool, libErr, pst, att, orig,
                   verVars>>

\* step 7 of relidler(): processLibraries and libraries_buildPublish up to
\* the dispatch of the library tasks
processLibraries ==
    /\ pc = "libs"
    /\ libPool = 0
    /\ IF \/ config.buildPublishMode \notin {"libs-only", "main-and-libs"}
          \/ Len(Stored.libs) = 0
       THEN /\ pc' = "finalize"
            /\ UNCHANGED <<libst, libPool, bst>>
       ELSE \E cpuCount \in 1..MaxCpus :
              LET k   == determineOptimalConcurrency(args.parallel, cpuCount)
                  st0 == [l \in LibNames |->
                             IF l \in LibSet(Stored) THEN "idle" ELSE "none"]
                  st1 == FillPool(st0, k)
              IN /\ libPool' = k
                 /\ libst' = st1
                 /\ bst' = StartLibBuilds(bst, st0, st1)
                 /\ pc' = IF LibsFinished(st1) THEN "finalize" ELSE pc
    /\ UNCHANGED <<args, file, config, cwd, dirs, lits, present, wrote,
                   cfgWrites, mainPhase, libErr, pst, att, orig,
                   verVars>>

\* a finalize that cleans up and re-enables the bump whether or not
\* publishing was paused
finalizeBuild_unconditional ==
    /\ pc = "finalize"
    /\ LET sbd == setBumpDisabled(FALSE, isDev, file) IN
       /\ dirs' = removeDistFolders(dirs, config.libs)
       /\ file' = sbd.file
       /\ cfgWrites' = IF sbd.wrote THEN Append(cfgWrites, "false")
                       ELSE cfgWrites
    /\ pc' = "done"
    /\ UNCHANGED <<args, config, cwd, lits, present, wrote, mainPhase, libst,
                   libPool, libErr, bst, pst, att, orig, verVars>>

\* step 8 of relidler(): finalizeBuild(config.pausePublish, isDev, ...)
finalizeBuild ==
    /\ pc = "finalize"
    /\ IF ~config.pausePublish
       THEN LET sbd == setBumpDisabled(FALSE, isDev, file) IN
            /\ dirs' = removeDistFolders(dirs, config.libs)
            /\ file' = sbd.file
            /\ cfgWrites' = IF sbd.wrote THEN Append(cfgWrites, "false")
                            ELSE cfgWrites
       ELSE UNCHANGED <<dirs, file, cfgWrites>>
    /\ pc' = "done"
    /\ UNCHANGED <<args, config, cwd, lits, present, wrote, mainPhase, libst,
                   libPool, libErr, bst, pst, att, orig, verVars>>

\* loading the configuration or cleaning up throws (a file system error):
\* the catch block of relidler() calls handleBuildError
StageThrows ==
    /\ pc \in {"start", "cleanup"}
    /\ pc' = "exit1"
    /\ UNCHANGED <<args, file, config, cwd, dirs, lits, present, wrote,
                   cfgWrites, mainPhase, libst, libPool, libErr, bst, pst,
                   att, orig, verVars>>

Next ==
    \/ LoadConfigStep
    \/ cleanupPreviousRun
    \/ StageThrows
    \/ BumpStage
    \/ processMainProject
    \/ processLibraries
    \/ finalizeBuild
    \/ \E d \in Dists : BuildDone(d)
    \/ \E d \in Dists : BuildFail(d)
    \/ \E d \in Dists : PubLoaded(d)
    \/ \E d \in Dists : CmdOk(d)
    \/ \E d \in Dists : CmdFail(d)

Spec == Init /\ [][Next]_vars

\* the same engine on the inputs of the bump stage
SpecBump == BumpInit /\ [][Next]_vars

(***************************************************************************)
(* autoIncrementVersion on its own                                         *)
(***************************************************************************)
VerAlphabet == {"0", "1", "2", "3", "9", ".", "-"}

VerStrings == UNION {[1..n -> VerAlphabet] : n \in 0..MaxVerLen}

VerInit ==
    /\ pc = "ver"
    /\ vOld \in VerStrings
    /\ vMode \in BumpModes
    /\ vRes = [threw |-> FALSE, value |-> <<>>]
    /\ call = NoCall
    /\ ret = NoCall
    /\ args = [dev |-> FALSE, dryRun |-> "undef", registry |-> "undef",
               bump |-> <<>>, parallel |-> "undef"]
    /\ file = AbsentFile
    /\ config = DEFAULT_CONFIG
    /\ cwd = PROJECT_ROOT
    /\ dirs = {}
    /\ lits = [p \in Paths |-> V123]
    /\ present = Paths
    /\ wrote = {}
    /\ cfgWrites = <<>>
    /\ mainPhase = "idle"
    /\ libst = [l \in LibNames |-> "none"]
    /\ libPool = 0
    /\ libErr = FALSE
    /\ bst = NoTasks
    /\ pst = NoTasks
    /\ att = [d \in Dists |-> 0]
    /\ orig = [d \in Dists |-> PROJECT_ROOT]

\* a call of autoIncrementVersion(oldVersion, mode)
AutoIncrement ==
    /\ pc = "ver"
    /\ vRes' = autoIncrementVersion(vOld, vMode)
    /\ pc' = "verDone"
    /\ UNCHANGED <<vOld, vMode, call, ret, args, file, config, cwd, dirs, lits, present,
                   wrote, cfgWrites, mainPhase, libst, libPool, libErr, bst,
                   pst, att, orig>>

VerNext == AutoIncrement

SpecVer == VerInit /\ [][VerNext]_vars


(***************************************************************************)
(* Properties                                                              *)
(***************************************************************************)
NoPublishInFlight == \A d \in Dists : pst[d] \notin {"load", "run"}

\* the distributions one cycle builds
CycleBuilds ==
    (IF config.buildPublishMode \in {"main-project-only", "main-and-libs"}
     THEN {<<"main", r>> : r \in Range(BuildSeq("main"))} ELSE {})
    \cup
    (IF config.buildPublishMode \in {"libs-only", "main-and-libs"}
     THEN {d \in LibNames \X Regs :
             LibHasMain(Stored, d[1]) /\ d[2] \in Range(BuildSeq(d[1]))}
     ELSE {})

\* C1: once every publish task has returned (successfully or by throwing),
\* the working directory is the project root again, whatever the
\* interleaving of the concurrently dispatched publish tasks
C1_WorkingDirRestored == NoPublishInFlight => cwd = PROJECT_ROOT

\* C2: when the build is invoked with --dry-run, every publish command that
\* is executed carries --dry-run, for the main project and every library
C2_DryRunFlagWins ==
    args.dryRun = "true" =>
        \A d \in Dists : pst[d] = "run" => PublishCommand(d).dryRunFlag

\* C3: in development mode no publish task is ever dispatched or executed,
\* no project file is rewritten and the disableBump token is never written
C3_DevNeverPublishesNorBumps ==
    isDev =>
        /\ \A d \in Dists : pst[d] = "none" /\ att[d] = 0
        /\ wrote = {}
        /\ cfgWrites = <<>>

\* a completed development cycle of a project whose stored configuration
\* allows publishing and bumping, with the main project and a library built
C3_Witness ==
    /\ isDev
    /\ pc = "done"
    /\ file.exists /\ ~file.cfg.pausePublish /\ file.token = "false"
    /\ bst[<<"main", "npm">>] = "done"
    /\ \E l \in LibNames : libst[l] = "done" /\ bst[<<l, "npm">>] = "done"

\* C4 as stated: no publish command runs before every distribution the
\* cycle builds has been built, and finalize runs after every publish
C4_PublishAfterAllBuilds ==
    /\ \A d \in Dists :
          pst[d] = "run" => \A e \in CycleBuilds : bst[e] = "done"
    /\ pc \in {"finalize", "done"} => NoPublishInFlight

\* C4 amended: builds start after cleanup and bump; a publish task of a
\* distribution starts only after the builds of its own owner (the main
\* project, or that library) have finished; libraries are processed only
\* after the main project has been built and published; finalize runs only
\* after every publish has finished
C4_PublishAfterOwnBuilds ==
    /\ \A d \in Dists :
          bst[d] # "none" => pc \notin {"start", "cleanup", "bump"}
    /\ \A d \in Dists :
          pst[d] \in {"load", "run"} =>
             \A r \in Range(BuildSeq(d[1])) : bst[<<d[1], r>>] = "done"
    /\ \A d \in LibNames \X Regs :
          (bst[d] # "none" \/ pst[d] # "none") =>
             /\ mainPhase = "done"
             /\ \A r \in Regs : pst[<<"main", r>>] \notin {"load", "run"}
    /\ pc \in {"finalize", "done"} => NoPublishInFlight

\* a completed cycle that published the main project for both registries
\* and a library
C4_Witness ==
    /\ pc = "done"
    /\ pst[<<"main", "npm">>] = "done" /\ pst[<<"main", "jsr">>] = "done"
    /\ \E l \in LibNames : pst[<<l, "npm">>] = "done"

\* C5: after a completed cycle with publishing not paused, the output
\* directories (npm, jsr, and libs when a library is configured) are gone
\* and disableBump is false in the build config file
C5_FinalizeCleansAndReenablesBump ==
    (pc = "done" /\ ~config.pausePublish) =>
        /\ dirs \cap ({"npm", "jsr"} \cup
                      (IF Len(config.libs) > 0 THEN {"libs"} ELSE {})) = {}
        /\ (file.exists /\ file.token # "none") => file.token = "false"
        /\ ~LoadConfig(file).disableBump

\* a completed publishing cycle that bumped, built a library and then
\* re-enabled the bump
C5_Witness ==
    /\ pc = "done"
    /\ ~config.pausePublish
    /\ cfgWrites = <<"true", "false">>
    /\ \E l \in LibNames : libst[l] = "done" /\ bst[<<l, "npm">>] = "done"
    /\ bst[<<"main", "npm">>] = "done"

\* C6 as stated: after a completed cycle with publishing paused,
\* disableBump is false
C6_PausedCycleReenablesBump ==
    (pc = "done" /\ config.pausePublish) => ~LoadConfig(file).disableBump

\* C6 amended: a completed cycle with publishing paused never writes the
\* disableBump token, which keeps the value it had before the cycle
C6_PausedCycleLeavesBumpFlag ==
    (pc = "done" /\ config.pausePublish) => cfgWrites = <<>>

\* a completed production cycle with publishing paused and the bump
\* disabled in the config file
C6_Witness ==
    /\ pc = "done"
    /\ config.pausePublish /\ ~isDev
    /\ file.exists /\ file.token = "true"
    /\ bst[<<"main", "npm">>] = "done"

\* a version of the form M.m.p
IsPlainVersion(s) == Positions(s, "-") = {} /\ Components(s) # <<>>

\* C7: for a version M.m.p autoIncrementVersion returns M.m.(p+1) for
\* autoPatch, M.(m+1).0 for autoMinor and (M+1).0.0 for autoMajor; 1.2.3
\* gives 1.2.4, 1.3.0 and 2.0.0
C7_AutoIncrement ==
    (pc = "verDone" /\ IsPlainVersion(vOld)) =>
        LET c == Components(vOld) IN
        /\ ~vRes.threw
        /\ vMode = "autoPatch" =>
              vRes.value = FormatNat(c[1]) \o <<".">> \o FormatNat(c[2])
                           \o <<".">> \o FormatNat(c[3] + 1)
        /\ vMode = "autoMinor" =>
              vRes.value = FormatNat(c[1]) \o <<".">> \o FormatNat(c[2] + 1)
                           \o <<".", "0">>
        /\ vMode = "autoMajor" =>
              vRes.value = FormatNat(c[1] + 1) \o <<".", "0", ".", "0">>
        /\ vOld = V123 =>
              vRes.value = CASE vMode = "autoPatch" -> <<"1", ".", "2", ".", "4">>
                             [] vMode = "autoMinor" -> <<"1", ".", "3", ".", "0">>
                             [] vMode = "autoMajor" -> <<"2", ".", "0", ".", "0">>

\* autoMinor applied to 1.2.3 has returned 1.3.0
C7_Witness ==
    /\ pc = "verDone"
    /\ vOld = V123 /\ vMode = "autoMinor"
    /\ vRes = [threw |-> FALSE, value |-> <<"1", ".", "3", ".", "0">>]

\* the bump stage reaches the body of bumpHandler
BumpRuns ==
    /\ pc = "bump"
    /\ ~config.disableBump
    /\ ~getConfigWithCliFlags(isDev, NoFlags, file).pausePublish

\* C8: when the bump runs, a missing package.json, a missing version
\* field, an invalid current version or an invalid requested version is
\* fatal on both paths: nothing is rewritten and the cycle exits
C8_BumpFailuresFatal ==
    [][(/\ BumpRuns
        /\ \/ "pkg" \notin present
           \/ lits["pkg"] = <<>>
           \/ ~SemverValid(lits["pkg"])
           \/ (args.bump # <<>> /\ ~SemverValid(args.bump)))
       => (/\ pc' = "exit1"
           /\ lits' = lits /\ file' = file
           /\ wrote' = wrote /\ cfgWrites' = cfgWrites)]_vars

\* the version the bump stage is asked to move to
TargetVersion ==
    IF args.bump # <<>> THEN args.bump
    ELSE autoIncrementVersion(lits["pkg"],
                              getConfigWithCliFlags(isDev, NoFlags, file).bump).value

\* C9: if the version to bump to equals the current version the bump stage
\* rewrites no file and does not write the disableBump token
C9_SameVersionNoOp ==
    [][(/\ pc = "bump"
        /\ "pkg" \in present
        /\ TargetVersion = lits["pkg"])
       => (/\ lits' = lits /\ file' = file
           /\ wrote' = wrote /\ cfgWrites' = cfgWrites)]_vars

\* the bump stage has run with --bump equal to the valid current version
\* and the cycle goes on
C9_Witness ==
    /\ pc = "main" /\ mainPhase = "idle"
    /\ ~config.disableBump /\ ~config.pausePublish
    /\ "pkg" \in present
    /\ args.bump = V123 /\ lits["pkg"] = V123
    /\ wrote = {} /\ cfgWrites = <<>>

\* C10: a bump rewrites only non-ignored files matched by the expansion of
\* the configured bumpFilter
C10_OnlyFilteredFilesRewritten ==
    wrote \subseteq {p \in Paths :
                        ProjectFiles[p].inFilter /\ ~ProjectFiles[p].ignored}


(***************************************************************************)
(* Helper functions called on their own                                    *)
(***************************************************************************)
\* the engine is not running while a helper function is called on its own
EngineIdle ==
    /\ vOld = <<>>
    /\ vMode = "autoPatch"
    /\ vRes = [threw |-> FALSE, value |-> <<>>]
    /\ args = [dev |-> FALSE, dryRun |-> "undef", registry |-> "undef",
               bump |-> <<>>, parallel |-> "undef"]
    /\ file = AbsentFile
    /\ config = DEFAULT_CONFIG
    /\ cwd = PROJECT_ROOT
    /\ dirs = {}
    /\ lits = [p \in Paths |-> V123]
    /\ present = Paths
    /\ wrote = {}
    /\ cfgWrites = <<>>
    /\ mainPhase = "idle"
    /\ libst = [l \in LibNames |-> "none"]
    /\ libPool = 0
    /\ libErr = FALSE
    /\ bst = NoTasks
    /\ pst = NoTasks
    /\ att = [d \in Dists |-> 0]
    /\ orig = [d \in Dists |-> PROJECT_ROOT]

engineVars == <<args, file, config, cwd, dirs, lits, present, wrote,
                cfgWrites, mainPhase, libst, libPool, libErr, bst, pst, att,
                orig, vOld, vMode, vRes>>

(***************************************************************************)
(* updateVersionInContent on the content of one file                       *)
(***************************************************************************)
\* A file's content is a sequence of assignments  <shape><pre><sep><post>
\* <open>value<close>: the text the version regexes can look at.  pre and
\* post count the blanks around the separator (: or =).
TokenShapes ==
    {"jsonVersion", "exportConstVersion", "constVersion", "versionColon",
     "VERSION", "exportConstCliVersion", "constCliVersion", "name"}

\* the shapes each of the six TS_VERSION_REGEXES finds, in array order; the
\* second and the sixth also match inside their exported form
TS_VERSION_REGEXES ==
    << {"exportConstVersion"},
       {"exportConstVersion", "constVersion"},
       {"versionColon"},
       {"VERSION"},
       {"exportConstCliVersion"},
       {"exportConstCliVersion", "constCliVersion"} >>

\* createJsonVersionRegex(oldVer): "version"\s*:\s*"<oldVer>"
createJsonVersionRegex(oldVer, t) ==
    /\ t.shape = "jsonVersion"
    /\ t.open = "dq" /\ t.close = "dq"
    /\ RegexMatches(oldVer, t.value)

\* content.includes(`"version": "${oldVersion}"`)
IncludesJsonVersion(content, oldVersion) ==
    \E i \in DOMAIN content :
        /\ content[i].shape = "jsonVersion"
        /\ content[i].pre = 0 /\ content[i].post = 1
        /\ content[i].open = "dq" /\ content[i].close = "dq"
        /\ content[i].value = oldVersion

\* content.replace(createJsonVersionRegex(old), `"version": "${new}"`)
ReplaceJson(content, oldVersion, newVersion) ==
    [i \in DOMAIN content |->
        IF createJsonVersionRegex(oldVersion, content[i])
        THEN [content[i] EXCEPT !.pre = 0, !.post = 1, !.value = newVersion]
        ELSE content[i]]

\* regex.test(updatedContent) for the k-th TypeScript regex
TsRegexTest(content, k, oldVersion) ==
    \E i \in DOMAIN content :
        /\ content[i].shape \in TS_VERSION_REGEXES[k]
        /\ RegexMatches(oldVersion, content[i].value)

\* updatedContent.replace(regex, `$1${newVersion}$2`)
ReplaceTs(content, k, oldVersion, newVersion) ==
    [i \in DOMAIN content |->
        IF /\ content[i].shape \in TS_VERSION_REGEXES[k]
           /\ RegexMatches(oldVersion, content[i].value)
        THEN [content[i] EXCEPT !.value = newVersion]
        ELSE content[i]]

\* the loop over TS_VERSION_REGEXES, regexes k..6
RECURSIVE TsLoop(_, _, _, _, _)
TsLoop(content, changed, k, oldVersion, newVersion) ==
    IF k > Len(TS_VERSION_REGEXES)
    THEN [content |-> content, changed |-> changed]
    ELSE IF TsRegexTest(content, k, oldVersion)
         THEN TsLoop(ReplaceTs(content, k, oldVersion, newVersion), TRUE,
                     k + 1, oldVersion, newVersion)
         ELSE TsLoop(content, changed, k + 1, oldVersion, newVersion)

\* updateVersionInContent(filePath, content, oldVersion, newVersion): the
\* content on disk afterwards and the value returned
updateVersionInContent(kind, content, oldVersion, newVersion) ==
    CASE kind = "json" ->
            IF IncludesJsonVersion(content, oldVersion)
            THEN [content |-> ReplaceJson(content, oldVersion, newVersion),
                  changed |-> TRUE]
            ELSE [content |-> content, changed |-> FALSE]
      [] kind = "ts" -> TsLoop(content, FALSE, 1, oldVersion, newVersion)
      [] OTHER -> [content |-> content, changed |-> FALSE]

\* a version that differs from 1.2.3 where the regex has its first dot
VNear == <<"1", "-", "2", ".", "3">>

V124 == <<"1", ".", "2", ".", "4">>

Tokens ==
    [shape : TokenShapes,
     pre   : {0, 1},
     post  : {1},
     open  : {"dq", "sq"},
     close : {"dq", "sq"},
     value : {V123, VNear, V200}]

Contents ==
    {<<t>> : t \in {u \in Tokens : u.open = u.close}}
    \cup {<<t, u>> : t \in {x \in Tokens : x.value = V123 /\ x.pre = 0},
                     u \in Tokens}

UpdateInit ==
    /\ pc = "updateVersionInContent"
    /\ call \in [fn : {"updateVersionInContent"},
                 kind : {"json", "ts", "md"},
                 content : Contents,
                 oldVersion : {V123},
                 newVersion : {V124}]
    /\ ret = NoCall
    /\ EngineIdle

UpdateVersionInContent ==
    /\ pc = "updateVersionInContent"
    /\ ret' = updateVersionInContent(call.kind, call.content,
                                     call.oldVersion, call.newVersion)
    /\ pc' = "returned"
    /\ UNCHANGED <<call, engineVars>>

UpdateNext == UpdateVersionInContent

SpecUpdate == UpdateInit /\ [][UpdateNext]_vars

\* the assignments of a file the bump is meant to rewrite
IsVersionToken(kind, t, oldVersion) ==
    /\ t.value = oldVersion
    /\ \/ kind = "json" /\ t.shape = "jsonVersion"
                        /\ t.open = "dq" /\ t.close = "dq"
       \/ kind = "ts" /\ t.shape \in UNION {TS_VERSION_REGEXES[j] :
                                            j \in DOMAIN TS_VERSION_REGEXES}

\* C11: on a JSON or TypeScript file that holds the old version in one of
\* the version shapes, updateVersionInContent sets the value of every such
\* assignment to the new version and leaves everything else as it was:
\* blanks, quotes, and every value that is not exactly the old version.
C11_OnlyVersionTokenChanges ==
    (/\ pc = "returned" /\ call.fn = "updateVersionInContent"
     /\ call.kind \in {"json", "ts"}
     /\ IF call.kind = "json"
        THEN IncludesJsonVersion(call.content, call.oldVersion)
        ELSE \E i \in DOMAIN call.content :
                IsVersionToken("ts", call.content[i], call.oldVersion))
    => /\ DOMAIN ret.content = DOMAIN call.content
       /\ \A i \in DOMAIN call.content :
            ret.content[i] =
                IF IsVersionToken(call.kind, call.content[i], call.oldVersion)
                THEN [call.content[i] EXCEPT !.value = call.newVersion]
                ELSE call.content[i]

(***************************************************************************)
(* inferEntries (build provider "auto")                                    *)
(***************************************************************************)
\* A file is [path, ext]: path is the sequence of its segments without the
\* extension, ext is "js", "mjs", "cjs", "ts" or "d.ts".
\* Deepest source path of the inputs.
MaxDepth == 3

\* extractExportFilenames(pkg.exports) when the descriptor has no exports
extractExportFilenames == <<>>

\* outputs pushed for bin, main, module and types, in that order
DeclaredOutputs(pkg) ==
    extractExportFilenames
    \o (IF pkg.bin = <<>> THEN <<>>
        ELSE <<[file |-> pkg.bin[1], type |-> "none", field |-> "bin"]>>)
    \o (IF pkg.main = <<>> THEN <<>>
        ELSE <<[file |-> pkg.main[1], type |-> "none", field |-> "main"]>>)
    \o (IF pkg.module = <<>> THEN <<>>
        ELSE <<[file |-> pkg.module[1], type |-> "esm", field |-> "module"]>>)
    \o (IF pkg.types = <<>> THEN <<>>
        ELSE <<[file |-> pkg.types[1], type |-> "none", field |-> "types"]>>)

\* "Try to detect output types": only outputs without a type are classified
DetectType(pkg, output) ==
    IF output.type # "none" THEN output.type
    ELSE LET isESMPkg == pkg.type = "module"
             isJS == output.file.ext = "js"
         IN  IF (isESMPkg /\ isJS) \/ output.file.ext = "mjs" THEN "esm"
             ELSE IF (~isESMPkg /\ isJS) \/ output.file.ext = "cjs" THEN "cjs"
             ELSE "none"

TypedOutputs(pkg) ==
    LET outputs == DeclaredOutputs(pkg) IN
    [k \in DOMAIN outputs |->
        [outputs[k] EXCEPT !.type = DetectType(pkg, outputs[k])]]

\* sourceFiles.sort((a, b) => a.split("/").length - b.split("/").length)
RECURSIVE SortByDepth(_, _)
SortByDepth(sourceFiles, depth) ==
    IF depth > MaxDepth THEN <<>>
    ELSE SelectSeq(sourceFiles, LAMBDA f : Len(f.path) = depth)
         \o SortByDepth(sourceFiles, depth + 1)

\* getEntrypointPaths(outputSlug): the slug and its shorter tails
getEntrypointPaths(slug) ==
    [i \in 1..Len(slug) |-> SubSeq(slug, i, Len(slug))]

\* a test that accepts only the source file at the path d itself
SOURCE_RE_wholePath(d, f) ==
    /\ f.ext # "d.ts"
    /\ f.path = d

\* SOURCE_RE.test(i): the source path ends with d, after a separator, and
\* carries one extension
SOURCE_RE(d, f) ==
    /\ f.ext # "d.ts"
    /\ Len(f.path) >= Len(d)
    /\ SubSeq(f.path, Len(f.path) - Len(d) + 1, Len(f.path)) = d

\* sourceFiles.find(...): index of the first match, 0 if none
FindSource(sourceFiles, d) ==
    LET hits == {i \in DOMAIN sourceFiles : SOURCE_RE(d, sourceFiles[i])} IN
    IF hits = {} THEN 0 ELSE CHOOSE i \in hits : \A j \in hits : i <= j

\* possiblePaths.reduce(...): the input of the first tail that has a source
RECURSIVE ReduceInput(_, _, _)
ReduceInput(sourceFiles, possiblePaths, i) ==
    IF i > Len(possiblePaths) THEN <<>>
    ELSE LET hit == FindSource(sourceFiles, possiblePaths[i]) IN
         IF hit # 0 THEN <<sourceFiles[hit].path>>
         ELSE ReduceInput(sourceFiles, possiblePaths, i + 1)

\* the loop "Infer entries from package files" from output k on
RECURSIVE InferLoop(_, _, _, _, _, _)
InferLoop(outputs, k, sourceFiles, isLib, onDisk, acc) ==
    IF k > Len(outputs) THEN acc
    ELSE
      LET output == outputs[k]
          input == ReduceInput(sourceFiles,
                               getEntrypointPaths(output.file.path), 1)
      IN
      IF input = <<>>
      THEN InferLoop(outputs, k + 1, sourceFiles, isLib, onDisk,
             IF output.file \notin onDisk
             THEN [acc EXCEPT !.warnings = Append(@, output.file)]
             ELSE acc)
      ELSE InferLoop(outputs, k + 1, sourceFiles, isLib, onDisk,
             [acc EXCEPT
                !.cjs = @ \/ output.type = "cjs",
                !.dts = @ \/ output.file.ext = "d.ts",
                !.entries =
                    IF \E e \in DOMAIN @ : @[e].input = input[1] THEN @
                    ELSE Append(@, [input |-> input[1], isLib |-> isLib])])

\* inferEntries(pkg, sourceFiles, isLib, rootDir); outputs is kept beside the
\* result to show how each declared output was classified
inferEntries(pkg, sourceFiles, isLib, onDisk) ==
    LET outputs == TypedOutputs(pkg)
        res == InferLoop(outputs, 1, SortByDepth(sourceFiles, 1), isLib,
                         onDisk,
                         [cjs |-> FALSE, dts |-> FALSE, entries |-> <<>>,
                          warnings |-> <<>>])
    IN  [cjs |-> res.cjs, dts |-> res.dts, entries |-> res.entries,
         warnings |-> res.warnings, outputs |-> outputs]

F(path, ext) == [path |-> path, ext |-> ext]

DistIndexJs == F(<<"dist", "index">>, "js")

SrcIndexTs == F(<<"src", "index">>, "ts")

SrcDeepIndexTs == F(<<"src", "deep", "index">>, "ts")

SrcCliTs == F(<<"src", "cli">>, "ts")

SrcIndexDts == F(<<"src", "index">>, "d.ts")

PackageJsons ==
    [type   : {"module", "commonjs"},
     bin    : {<<>>, <<F(<<"dist", "cli">>, "mjs")>>},
     main   : {<<>>, <<DistIndexJs>>, <<F(<<"dist", "index">>, "cjs")>>,
               <<F(<<"dist", "other">>, "js")>>},
     module : {<<>>, <<DistIndexJs>>, <<F(<<"dist", "index">>, "mjs")>>},
     types  : {<<>>, <<F(<<"dist", "index">>, "d.ts")>>}]

SourceTrees ==
    {<<>>, <<SrcIndexTs>>, <<SrcDeepIndexTs, SrcIndexTs>>,
     <<SrcCliTs, SrcIndexTs>>, <<SrcDeepIndexTs>>, <<SrcIndexDts>>}

InferInit ==
    /\ pc = "inferEntries"
    /\ call \in [fn : {"inferEntries"},
                 pkg : PackageJsons,
                 sourceFiles : SourceTrees,
                 isLib : BOOLEAN,
                 onDisk : {{}, {F(<<"dist", "other">>, "js")}}]
    /\ ret = NoCall
    /\ EngineIdle

InferEntries ==
    /\ pc = "inferEntries"
    /\ ret' = inferEntries(call.pkg, call.sourceFiles, call.isLib,
                           call.onDisk)
    /\ pc' = "returned"
    /\ UNCHANGED <<call, engineVars>>

InferNext == InferEntries

SpecInfer == InferInit /\ [][InferNext]_vars

\* the source files a declared output matches by path suffix
MatchingSources(output, sourceFiles) ==
    {f \in Range(sourceFiles) :
        /\ f.ext # "d.ts"
        /\ \E i \in 1..Len(output.file.path) :
             LET d == SubSeq(output.file.path, i, Len(output.file.path)) IN
             /\ Len(f.path) >= Len(d)
             /\ SubSeq(f.path, Len(f.path) - Len(d) + 1, Len(f.path)) = d}

\* the classification by extension and package type
ClassByExtension(pkg, output) ==
    CASE output.file.ext = "mjs" -> "esm"
      [] output.file.ext = "cjs" -> "cjs"
      [] output.file.ext = "js" ->
            IF pkg.type = "module" THEN "esm" ELSE "cjs"
      [] OTHER -> "none"

\* what inferEntries owes to its declared outputs, for a given classification
InferContract(classOf(_, _)) ==
    LET outputs == DeclaredOutputs(call.pkg) IN
    /\ Len(ret.outputs) = Len(outputs)
    /\ \A k \in DOMAIN outputs :
         LET m == MatchingSources(outputs[k], call.sourceFiles) IN
         /\ ret.outputs[k].type = classOf(call.pkg, outputs[k])
         /\ Cardinality(m) = 1 =>
              Cardinality({e \in DOMAIN ret.entries :
                              \E f \in m : ret.entries[e].input = f.path}) = 1
    /\ \A e \in DOMAIN ret.entries :
         \E k \in DOMAIN outputs :
            \E f \in MatchingSources(outputs[k], call.sourceFiles) :
                ret.entries[e].input = f.path
    /\ Range(ret.warnings) =
         {outputs[k].file : k \in {j \in DOMAIN outputs :
              /\ MatchingSources(outputs[j], call.sourceFiles) = {}
              /\ outputs[j].file \notin call.onDisk}}

ClassExceptModule(pkg, output) ==
    IF output.field = "module" THEN "esm" ELSE ClassByExtension(pkg, output)

RECURSIVE ReplaceAll(_, _, _)
ReplaceAll(str, pat, rep) ==
    IF str = <<>> THEN <<>>
    ELSE IF Len(str) >= Len(pat) /\ SubSeq(str, 1, Len(pat)) = pat
         THEN rep \o ReplaceAll(SubSeq(str, Len(pat) + 1, Len(str)), pat, rep)
         ELSE <<Head(str)>> \o ReplaceAll(Tail(str), pat, rep)

\* str.replace(/\r?\n/g, "\\n"): a newline becomes backslash, n
RECURSIVE ReplaceNewlines(_)
ReplaceNewlines(str) ==
    IF str = <<>> THEN <<>>
    ELSE IF Len(str) >= 2 /\ str[1] = "CR" /\ str[2] = "LF"
         THEN <<"BS", "n">> \o ReplaceNewlines(SubSeq(str, 3, Len(str)))
         ELSE IF str[1] = "LF"
              THEN <<"BS", "n">> \o ReplaceNewlines(Tail(str))
              ELSE <<Head(str)>> \o ReplaceNewlines(Tail(str))

\* escapeTemplateString: the six replacements, in order
escapeTemplateString(str) ==
    LET s1 == ReplaceAll(str, <<"BQ">>, <<"BS", "BQ">>)
        s2 == ReplaceAll(s1, <<"BS", "$", "{">>,
                         <<"BS", "u", "0", "0", "2", "4", "{">>)
        s3 == ReplaceAll(s2, <<"$", "{">>, <<"BS", "$", "{">>)
        s4 == ReplaceAll(s3, <<"BS", "{", "{">>, <<"{", "{">>)
        s5 == ReplaceAll(s4, <<"BS", "}", "}">>, <<"}", "}">>)
    IN  ReplaceNewlines(s5)

\* The value the generated module gives a text file when it is imported:
\* the template literal holding <code>, evaluated by the JavaScript runtime.  The
\* import fails when the literal ends early or opens a substitution.
RECURSIVE TemplateLiteralValue(_)
TemplateLiteralValue(code) ==
    LET rest(n) == TemplateLiteralValue(SubSeq(code, n + 1, Len(code)))
        cons(c, r) == [ok |-> r.ok, value |-> c \o r.value]
    IN
    IF code = <<>> THEN [ok |-> TRUE, value |-> <<>>]
    ELSE CASE code[1] = "BQ" -> [ok |-> FALSE, value |-> <<>>]
           [] code[1] = "$" /\ Len(code) >= 2 /\ code[2] = "{" ->
                [ok |-> FALSE, value |-> <<>>]
           [] code[1] = "CR" ->
                IF Len(code) >= 2 /\ code[2] = "LF"
                THEN cons(<<"LF">>, rest(2)) ELSE cons(<<"LF">>, rest(1))
           [] code[1] = "BS" ->
                IF Len(code) = 1 THEN [ok |-> FALSE, value |-> <<>>]
                ELSE CASE code[2] = "n" -> cons(<<"LF">>, rest(2))
                       [] code[2] = "u" ->
                            IF Len(code) >= 6
                               /\ SubSeq(code, 3, 6) = <<"0", "0", "2", "4">>
                            THEN cons(<<"$">>, rest(6))
                            ELSE [ok |-> FALSE, value |-> <<>>]
                       [] code[2] = "LF" -> rest(2)
                       [] code[2] = "CR" ->
                            IF Len(code) >= 3 /\ code[3] = "LF"
                            THEN rest(3) ELSE rest(2)
                       [] OTHER -> cons(<<code[2]>>, rest(2))
           [] OTHER -> cons(<<code[1]>>, rest(1))

\* jsonStr....replace(/,\s*,/g, ","): "Remove double commas" in the emitted
\* object literal, string values included
n_ok(str, blanks) == blanks + 2 <= Len(str) /\ str[blanks + 2] = ","

RECURSIVE RemoveDoubleCommas(_)
RemoveDoubleCommas(str) ==
    IF str = <<>> THEN <<>>
    ELSE IF str[1] = ","
         THEN LET blanks == CHOOSE n \in 0..(Len(str) - 1) :
                              /\ \A i \in 2..(n + 1) : str[i] = " "
                              /\ (n + 2 > Len(str) \/ str[n + 2] # " ")
              IN  IF n_ok(str, blanks)
                  THEN <<",">> \o RemoveDoubleCommas(
                                    SubSeq(str, blanks + 3, Len(str)))
                  ELSE <<",">> \o RemoveDoubleCommas(Tail(str))
         ELSE <<Head(str)>> \o RemoveDoubleCommas(Tail(str))

\* longest text file content of the packer inputs
MaxTextLen == 3

\* the files of the one template directory being packed, in walkDir order
TplOrder == <<"tpl/a.txt", "tpl/b.json", "tpl/c.png">>

TplFiles == Range(TplOrder)

isBinaryExt(relPath) == relPath = "tpl/c.png"

\* hashFile: the digest names the bytes it was taken from
hashFile(bytes) == <<"sha1", bytes>>

Absent == [exists |-> FALSE]

OnDisk(content, mtime) == [exists |-> TRUE, content |-> content, mtime |-> mtime]

\* readFileForTemplate together with the metadata the pack loop attaches:
\* json content is the parsed value, here the one string the document holds
readFileForTemplate(relPath, f) ==
    IF isBinaryExt(relPath)
    THEN [type |-> "binary", content |-> <<>>,
          binaryHash |-> hashFile(f.content), updatedAt |-> f.mtime]
    ELSE IF relPath = "tpl/b.json"
         THEN [type |-> "json", content |-> f.content,
               binaryHash |-> <<>>, updatedAt |-> f.mtime]
         ELSE [type |-> "text", content |-> f.content,
               binaryHash |-> <<>>, updatedAt |-> f.mtime]

\* "emit template module": the source text written for one file entry
EmitEntry(meta) ==
    CASE meta.type = "text" ->
            [meta EXCEPT !.content = escapeTemplateString(meta.content)]
      [] meta.type = "json" ->
            [meta EXCEPT !.content = RemoveDoubleCommas(meta.content)]
      [] OTHER -> meta

\* files the pack mode writes under the output directory
GeneratedFiles ==
    {"my-templates-types.ts", "my-templates-mod.ts", "packed/tpl.ts",
     "packed/binaries"}

NotPacked == [exit |-> 0, stage |-> "none", out |-> Absent,
              emitted |-> <<>>, binaries |-> {}, dest |-> <<>>, log |-> {}]

\* what pack mode writes once it has accepted the output directory
PackOutput(src, out) ==
    [exit |-> 0,
     out |-> [exists |-> TRUE,
              files |-> (IF out.exists THEN out.files ELSE {})
                        \cup GeneratedFiles],
     emitted |-> [i \in DOMAIN TplOrder |->
                    EmitEntry(readFileForTemplate(TplOrder[i],
                                                  src[TplOrder[i]]))],
     binaries |-> {src[q].content : q \in {r \in TplFiles : isBinaryExt(r)}}]

\* pack mode that never looks at the output directory
run_noCheck(a, src, out) == PackOutput(src, out)

\* run, pack mode: the output directory, the emitted template module and
\* the binaries stored beside it
run(a, src, out) ==
    IF out.exists /\ out.files # {} /\ ~a.force /\ ~a.update
    THEN [exit |-> 1, out |-> out, emitted |-> <<>>, binaries |-> {}]
    ELSE PackOutput(src, out)

\* jiti.import(aggregatorPath): the templates object of the emitted module
ImportOk(emitted) ==
    \A i \in DOMAIN emitted :
        emitted[i].type = "text" => TemplateLiteralValue(emitted[i].content).ok

ImportedMeta(meta) ==
    IF meta.type = "text"
    THEN [meta EXCEPT !.content = TemplateLiteralValue(meta.content).value]
    ELSE meta

\* restoreFile that writes whether or not the destination exists
restoreFile_alwaysWrite(dest, log, relPath, meta, binaries, force) ==
    [dest |-> [dest EXCEPT ![relPath] =
                  OnDisk(IF meta.type = "binary" THEN meta.binaryHash[2]
                         ELSE meta.content, meta.updatedAt)],
     log |-> log]

\* restoreFile(outRoot, relPath, meta, binsDir, force)
restoreFile(dest, log, relPath, meta, binaries, force) ==
    IF ~force /\ dest[relPath].exists
    THEN [dest |-> dest, log |-> log \cup {<<"skip", relPath>>}]
    ELSE IF meta.type = "binary" /\ meta.binaryHash[2] \notin binaries
         THEN [dest |-> dest, log |-> log \cup {<<"missing", relPath>>}]
         ELSE [dest |-> [dest EXCEPT ![relPath] =
                          OnDisk(IF meta.type = "binary"
                                 THEN meta.binaryHash[2]
                                 ELSE meta.content, meta.updatedAt)],
               log |-> log]

\* the loop of unpackTemplates over the file entries from entry i on
RECURSIVE RestoreAll(_, _, _, _, _, _)
RestoreAll(dest, log, emitted, i, binaries, force) ==
    IF i > Len(emitted) THEN [dest |-> dest, log |-> log]
    ELSE LET r == restoreFile(dest, log, TplOrder[i],
                              ImportedMeta(emitted[i]), binaries, force)
         IN  RestoreAll(r.dest, r.log, emitted, i + 1, binaries, force)

\* unpackTemplates(aggregatorPath, outDir, force)
unpackTemplates(emitted, binaries, dest, force) ==
    IF ~ImportOk(emitted)
    THEN [threw |-> TRUE, dest |-> dest, log |-> {}]
    ELSE LET r == RestoreAll(dest, {}, emitted, 1, binaries, force)
         IN  [threw |-> FALSE, dest |-> r.dest, log |-> r.log]

TextAlphabet == {"BQ", "$", "{", "}", "BS", "CR", "LF", "n", "a"}

Texts == UNION {[1..n -> TextAlphabet] : n \in 0..MaxTextLen}

JsonValues == {<<"a">>, <<"a", ",", ",", "b">>, <<"a", ",", " ", ",", "b">>}

SourceDir(text, json) ==
    [q \in TplFiles |->
        CASE q = "tpl/a.txt" -> OnDisk(text, "T1")
          [] q = "tpl/b.json" -> OnDisk(json, "T1")
          [] OTHER -> OnDisk(<<"bytes">>, "T1")]

FreshDir == [q \in TplFiles |-> Absent]

DestDirs ==
    {FreshDir,
     [q \in TplFiles |-> IF q = "tpl/a.txt" THEN OnDisk(<<"m", "y">>, "T0")
                         ELSE Absent],
     [q \in TplFiles |-> OnDisk(<<"m", "y">>, "T0")]}

OutDirs == {Absent, [exists |-> TRUE, files |-> {}],
            [exists |-> TRUE, files |-> {"notes.md"}]}

PackInit ==
    /\ pc = "pack"
    /\ \/ call \in [fn : {"pack"}, src : {SourceDir(t, <<"a">>) : t \in Texts},
                    args : {[force |-> FALSE, update |-> TRUE]},
                    out : {Absent}, dest : {FreshDir},
                    unpackForce : {FALSE}]
       \/ call \in [fn : {"pack"},
                    src : {SourceDir(t, j) : t \in {<<"a">>, <<"a", "LF">>},
                                             j \in JsonValues},
                    args : [force : BOOLEAN, update : BOOLEAN],
                    out : OutDirs, dest : DestDirs, unpackForce : BOOLEAN]
    /\ ret = [NotPacked EXCEPT !.out = call.out, !.dest = call.dest]
    /\ EngineIdle

\* the pack command in pack mode
Pack ==
    /\ pc = "pack"
    /\ LET r == run(call.args, call.src, call.out) IN
       /\ ret' = [ret EXCEPT !.exit = r.exit, !.stage = "pack",
                             !.out = r.out, !.emitted = r.emitted,
                             !.binaries = r.binaries]
       /\ pc' = IF r.exit = 1 THEN "exit1" ELSE "packed"
    /\ UNCHANGED <<call, engineVars>>

\* the pack command with --unpack on the aggregator just written
Unpack ==
    /\ pc = "packed"
    /\ LET r == unpackTemplates(ret.emitted, ret.binaries, ret.dest,
                                call.unpackForce) IN
       /\ ret' = [ret EXCEPT !.exit = IF r.threw THEN 1 ELSE 0,
                             !.stage = "unpack",
                             !.dest = r.dest, !.log = r.log]
       /\ pc' = IF r.threw THEN "exit1" ELSE "unpacked"
    /\ UNCHANGED <<call, engineVars>>

PackNext == Pack \/ Unpack

SpecPack == PackInit /\ [][PackNext]_vars

\* C13: pack followed by unpack into a fresh directory restores every text
\* file byte for byte, every binary file byte for byte, and every JSON file
\* with the parsed structure it had.
C13_PackUnpackRoundTrip ==
    (/\ call.fn = "pack" /\ ret.stage = "unpack"
     /\ call.dest = FreshDir)
    => /\ pc = "unpacked"
       /\ \A q \in TplFiles :
            /\ ret.dest[q].exists
            /\ ret.dest[q].content = call.src[q].content

\* C14: unpack without --force leaves every destination file that already
\* exists as it was (content and modification time), logs a skip for it,
\* and still restores the entries whose destination does not exist.
C14_UnpackNeverOverwrites ==
    (pc = "unpacked" /\ ~call.unpackForce)
    => \A q \in TplFiles :
         IF call.dest[q].exists
         THEN ret.dest[q] = call.dest[q] /\ <<"skip", q>> \in ret.log
         ELSE ret.dest[q].exists /\ <<"skip", q>> \notin ret.log

C14_Witness ==
    /\ pc = "unpacked" /\ ~call.unpackForce
    /\ call.dest["tpl/a.txt"].exists /\ ~call.dest["tpl/c.png"].exists
    /\ ret.dest["tpl/a.txt"] = OnDisk(<<"m", "y">>, "T0")
    /\ ret.dest["tpl/c.png"] = OnDisk(<<"bytes">>, "T1")
    /\ <<"skip", "tpl/a.txt">> \in ret.log

\* C15: pack mode on an existing, non-empty output directory with neither
\* --force nor --update exits with code 1 and leaves the output directory
\* exactly as it was.
C15_PackRefusesNonEmptyOutput ==
    (/\ call.fn = "pack" /\ pc # "pack"
     /\ call.out.exists /\ call.out.files # {}
     /\ ~call.args.force /\ ~call.args.update)
    => /\ pc = "exit1" /\ ret.exit = 1 /\ ret.stage = "pack"
       /\ ret.out = call.out
       /\ ret.emitted = <<>> /\ ret.binaries = {}

C15_Witness ==
    /\ pc = "exit1" /\ ret.stage = "pack" /\ ret.exit = 1
    /\ call.out = [exists |-> TRUE, files |-> {"notes.md"}]
    /\ ~call.args.force /\ ~call.args.update
    /\ ret.out = call.out

(***************************************************************************)
(* Library imports rewritten to package names                              *)
(***************************************************************************)
DEBUG_DISABLE ==
    [unstable_convertImportPathsToPkgNames |-> TRUE,
     unstable_copyExternalFilesToAddonsDir |-> TRUE]

\* config.libs of the two-library project, in declaration order
LibMains ==
    << [name |-> "libA", dir |-> "src/libs/a"],
       [name |-> "libB", dir |-> "src/libs/b"] >>

\* An import of an output file: its specifier, whether the specifier starts
\* with "." or "~/", whether it contains "dist-libs", and the library
\* source directory its path resolves into ("none" for any other place).
\* processLibraryImportsInFile: the specifier after the rewrite
RewrittenSpecifier(imp, currentLibName) ==
    IF ~imp.relative \/ imp.distLibs THEN imp.specifier
    ELSE LET hits == {i \in DOMAIN LibMains :
                        /\ LibMains[i].name # currentLibName
                        /\ imp.into = LibMains[i].dir}
         IN  IF hits = {} THEN imp.specifier
             ELSE LibMains[CHOOSE i \in hits : \A j \in hits : i <= j].name

processLibraryImportsInFile(content, currentLibName) ==
    [i \in DOMAIN content |->
        [content[i] EXCEPT
            !.specifier = RewrittenSpecifier(content[i], currentLibName)]]

\* unstable_convertImportPathsToPkgNames(outdirBin, isJsr) on the one
\* output file of the library currentLibName
unstable_convertImportPathsToPkgNames(content, currentLibName) ==
    IF DEBUG_DISABLE.unstable_convertImportPathsToPkgNames
    THEN content
    ELSE processLibraryImportsInFile(content, currentLibName)

ImportStatements ==
    [specifier : {"path"},
     relative : BOOLEAN,
     distLibs : BOOLEAN,
     into : {"src/libs/a", "src/libs/b", "none"}]

OutputFiles ==
    {<<i>> : i \in ImportStatements}
    \cup {<<i, j>> : i \in ImportStatements, j \in ImportStatements}

ImportsInit ==
    /\ pc = "library_performCommonBuildSteps"
    /\ call \in [fn : {"library_performCommonBuildSteps"},
                 libName : {"libB"},
                 isJsr : BOOLEAN,
                 content : OutputFiles]
    /\ ret = NoCall
    /\ EngineIdle

\* library_performCommonBuildSteps, as far as import specifiers go
library_performCommonBuildSteps ==
    /\ pc = "library_performCommonBuildSteps"
    /\ ret' = [content |-> unstable_convertImportPathsToPkgNames(
                               call.content, call.libName)]
    /\ pc' = "returned"
    /\ UNCHANGED <<call, engineVars>>

ImportsNext == library_performCommonBuildSteps

SpecImports == ImportsInit /\ [][ImportsNext]_vars

\* C16: after libB's distribution is built, every relative import of its
\* output that resolves into libA's source directory names the package
\* libA, and imports into libB itself or at a dist-libs path are unchanged.
C16_CrossLibraryImportsRewritten ==
    (pc = "returned" /\ call.fn = "library_performCommonBuildSteps")
    => \A i \in DOMAIN call.content :
         LET imp == call.content[i] IN
         ret.content[i].specifier =
            IF imp.relative /\ ~imp.distLibs /\ imp.into = "src/libs/a"
            THEN "libA" ELSE imp.specifier

(***************************************************************************)
(* filterDeps and getLibDependencies                                       *)
(***************************************************************************)
\* config.excludedDependencyPatterns, the default list
excludedDependencyPatterns ==
    {"@types", "biome", "eslint", "knip", "prettier", "typescript",
     "@reliverse/config"}

DepNames == {"a", "b", "ESLint", "@types/node"}

DepVersion(name) ==
    CASE name = "a" -> "1.0.0"
      [] name = "b" -> "2.0.0"
      [] OTHER -> "9.0.0"

\* depName.toLowerCase()
ToLowerCase(name) == IF name = "ESLint" THEN "eslint" ELSE name

\* the patterns a lower-cased dependency name contains as a substring
PatternsIn(lower) ==
    CASE lower = "eslint" -> {"eslint"}
      [] lower = "@types/node" -> {"@types"}
      [] OTHER -> {}

\* shouldExcludeByPattern(depName)
shouldExcludeByPattern(depName) ==
    \E pattern \in excludedDependencyPatterns :
        ToLowerCase(pattern) \in PatternsIn(ToLowerCase(depName))

\* shouldExcludeDep(depName, isDev)
shouldExcludeDep(excludeMode, depName, isDevDeps) ==
    CASE excludeMode = "patterns-only" -> shouldExcludeByPattern(depName)
      [] excludeMode = "patterns-and-devdeps" ->
            isDevDeps \/ shouldExcludeByPattern(depName)
      [] OTHER -> shouldExcludeByPattern(depName)

\* extractPackageName(importPath): nothing for an absent or relative path
extractPackageName(importPath) ==
    IF importPath = "undef" \/ importPath \in {".", "./"} THEN {}
    ELSE {importPath}

\* An import statement of an output file: the package its specifier names
\* ("none" for a relative one) and what the pattern
\* /from\s+['"](\.|\.\/|\.\\)?src(\/|\\)/ captures in it: "nomatch" when
\* the specifier does not start with src/, else the prefix before src
\* ("undef", "." or "./").
\* usedPackages of filterDeps
UsedPackages(imports) ==
    UNION {extractPackageName(i.captured) :
              i \in {j \in imports : j.captured # "nomatch"}}

Restrict(deps, keep) == [k \in (DOMAIN deps) \cap keep |-> deps[k]]

\* filterDeps(deps, clearUnused, outdirBin, isJsr, config); isDevDeps is
\* deps === originalPkg.devDependencies
filterDeps(deps, clearUnused, imports, excludeMode, isDevDeps) ==
    IF ~clearUnused
    THEN Restrict(deps, {k \in DOMAIN deps :
                            ~shouldExcludeDep(excludeMode, k, isDevDeps)})
    ELSE Restrict(deps, {k \in DOMAIN deps :
                            /\ k \in UsedPackages(imports)
                            /\ ~shouldExcludeDep(excludeMode, k, isDevDeps)})

\* getLibDependencies that filters the listed dependencies by pattern too
getLibDependencies_arrayFiltered(libConfig, originalDeps, imports, excludeMode, isDevDeps) ==
    CASE libConfig.configured /\ libConfig.dependencies = "array" ->
            Restrict(originalDeps,
                     {k \in libConfig.names : ~shouldExcludeByPattern(k)})
      [] libConfig.configured /\ libConfig.dependencies = "true" ->
            Restrict(originalDeps,
                     {k \in DOMAIN originalDeps :
                        ~shouldExcludeDep(excludeMode, k, isDevDeps)})
      [] OTHER -> filterDeps(originalDeps, TRUE, imports, excludeMode,
                             isDevDeps)

\* getLibDependencies(libName, originalDeps, outdirBin, isJsr)
getLibDependencies(libConfig, originalDeps, imports, excludeMode, isDevDeps) ==
    IF ~libConfig.configured
    THEN filterDeps(originalDeps, TRUE, imports, excludeMode, isDevDeps)
    ELSE CASE libConfig.dependencies = "true" ->
                Restrict(originalDeps,
                    {k \in DOMAIN originalDeps :
                        ~ CASE excludeMode = "patterns-only" ->
                                    shouldExcludeByPattern(k)
                            [] excludeMode = "patterns-and-devdeps" ->
                                    isDevDeps \/ shouldExcludeByPattern(k)
                            [] OTHER -> FALSE})
           [] libConfig.dependencies = "array" ->
                Restrict(originalDeps, libConfig.names)
           [] OTHER -> filterDeps(originalDeps, TRUE, imports, excludeMode,
                                  isDevDeps)

DepRecords == {[k \in S |-> DepVersion(k)] : S \in SUBSET DepNames}

ImportSets ==
    SUBSET {[pkg |-> "a", captured |-> "nomatch"],
            [pkg |-> "b", captured |-> "nomatch"],
            [pkg |-> "none", captured |-> "./"],
            [pkg |-> "none", captured |-> "undef"]}

LibDepConfigs ==
    {[configured |-> FALSE, dependencies |-> "absent", names |-> {}],
     [configured |-> TRUE, dependencies |-> "absent", names |-> {}],
     [configured |-> TRUE, dependencies |-> "true", names |-> {}]}
    \cup {[configured |-> TRUE, dependencies |-> "array", names |-> S] :
             S \in {{"a"}, {"a", "ESLint"}, {"b", "zod"}}}

\* The callers (createPackageJSON, library_createJsrConfig and the like) read
\* package.json themselves and pass its dependencies or devDependencies;
\* sameObject says whether readPackageJSON inside the callee returns that
\* very object again.
DepsInit ==
    /\ pc = "deps"
    /\ \/ call \in [fn : {"filterDeps"}, deps : DepRecords,
                    clearUnused : BOOLEAN, imports : ImportSets,
                    excludeMode : {"patterns-and-devdeps", "patterns-only"},
                    field : {"dependencies", "devDependencies"},
                    sameObject : BOOLEAN,
                    libConfig : {[configured |-> FALSE,
                                  dependencies |-> "absent", names |-> {}]}]
       \/ call \in [fn : {"getLibDependencies"}, deps : DepRecords,
                    clearUnused : {TRUE}, imports : ImportSets,
                    excludeMode : {"patterns-and-devdeps", "patterns-only"},
                    field : {"dependencies"},
                    sameObject : BOOLEAN,
                    libConfig : LibDepConfigs]
    /\ ret = NoCall
    /\ EngineIdle

IsDevDeps == call.field = "devDependencies" /\ call.sameObject

FilterDeps ==
    /\ pc = "deps" /\ call.fn = "filterDeps"
    /\ ret' = [deps |-> filterDeps(call.deps, call.clearUnused, call.imports,
                                   call.excludeMode, IsDevDeps)]
    /\ pc' = "returned"
    /\ UNCHANGED <<call, engineVars>>

GetLibDependencies ==
    /\ pc = "deps" /\ call.fn = "getLibDependencies"
    /\ ret' = [deps |-> getLibDependencies(call.libConfig, call.deps,
                            call.imports, call.excludeMode, IsDevDeps)]
    /\ pc' = "returned"
    /\ UNCHANGED <<call, engineVars>>

DepsNext == FilterDeps \/ GetLibDependencies

SpecDeps == DepsInit /\ [][DepsNext]_vars

\* the packages the imports of the output files name
ImportedPackages == {i.pkg : i \in call.imports} \ {"none"}

\* the dependencies the exclusion rules of the configuration remove
ExcludedByConfig ==
    {k \in DOMAIN call.deps :
        \/ call.field = "devDependencies"
           /\ call.excludeMode = "patterns-and-devdeps"
        \/ \E pattern \in excludedDependencyPatterns :
              pattern \in PatternsIn(ToLowerCase(k))}

\* C17: filterDeps with clearUnused true returns exactly the non-excluded
\* dependencies whose package an import of the output files names.
C17_UsageBasedFiltering ==
    (pc = "returned" /\ call.fn = "filterDeps" /\ call.clearUnused)
    => ret.deps = Restrict(call.deps,
                           (ImportedPackages \cap DOMAIN call.deps)
                           \ ExcludedByConfig)

\* C18: getLibDependencies follows the dependencies setting: an array gives
\* exactly the original dependencies it names, true gives every original
\* dependency the exclusion rules keep, and an absent setting or an
\* unconfigured library gives what usage-based filtering gives.
C18_LibDependenciesSetting ==
    (pc = "returned" /\ call.fn = "getLibDependencies")
    => ret.deps =
         CASE call.libConfig.configured
              /\ call.libConfig.dependencies = "array" ->
                 Restrict(call.deps, call.libConfig.names)
           [] call.libConfig.configured
              /\ call.libConfig.dependencies = "true" ->
                 Restrict(call.deps, (DOMAIN call.deps) \ ExcludedByConfig)
           [] OTHER ->
                 filterDeps(call.deps, TRUE, call.imports, call.excludeMode,
                            IsDevDeps)

C18_Witness ==
    /\ pc = "returned" /\ call.fn = "getLibDependencies"
    /\ DOMAIN call.deps = {"a", "b", "ESLint"}
    /\ call.libConfig.configured /\ call.libConfig.dependencies = "array"
    /\ call.libConfig.names = {"a", "ESLint"}
    /\ ret.deps = [k \in {"a", "ESLint"} |-> DepVersion(k)]

(***************************************************************************)
(* Properties of error handling in relidler()                              *)
(***************************************************************************)
\* a build or a publish task of a library has failed
LibFailed ==
    \E d \in Dists : d[1] # "main" /\ (bst[d] = "failed" \/ pst[d] = "failed")

\* an error has propagated out of a stage
StageFailed ==
    \/ \E d \in Dists : pst[d] = "failed"
    \/ bst[<<"main", "npm">>] = "failed" \/ bst[<<"main", "jsr">>] = "failed"
    \/ ~isDev /\ LibFailed

C20_LibraryFailurePolicy ==
    /\ []((~isDev /\ LibFailed) => pc = "exit1")
    /\ [][(~isDev /\ LibFailed') =>
            \A l \in LibNames : libst[l] = "idle" => libst'[l] = "idle"]_vars
    /\ []((isDev /\ LibFailed) => (pc # "exit1" /\ libErr))
    /\ []((isDev /\ pc \in {"finalize", "done"} /\ libPool > 0) =>
            \A l \in LibSet(Stored) :
                /\ libst[l] \in {"done", "failed", "skipped"}
                /\ (LibHasMain(Stored, l) /\ Len(BuildSeq(l)) > 0) =>
                      \E r \in Regs : bst[<<l, r>>] \in {"done", "failed"})

C20_Witness ==
    /\ isDev /\ pc = "done"
    /\ libst["libA"] = "failed"
    /\ libst["libB"] = "done"
    /\ libErr


(***************************************************************************)
(* Libraries without a main path                                           *)
(***************************************************************************)
\* configured libraries that have no main path
LibsWithoutMain == {l \in LibSet(Stored) : ~LibHasMain(Stored, l)}

\* C21: a configured library without a main path is skipped: none of its
\* registry builds and none of its publish commands is ever started, and the
\* other configured libraries are still processed: a library stage that ends
\* without a failure has completed the task of every library with a main path
C21_MissingMainSkipped ==
    /\ \A l \in LibsWithoutMain :
          /\ libst[l] \in {"none", "idle", "skipped"}
          /\ \A r \in Regs : /\ bst[<<l, r>>] = "none"
                             /\ pst[<<l, r>>] = "none"
                             /\ att[<<l, r>>] = 0
    /\ (pc \in {"finalize", "done"} /\ libPool > 0 /\ ~libErr)
          => \A l \in LibSet(Stored) \ LibsWithoutMain : libst[l] = "done"

\* a cycle has skipped libB, which has no main path, and built libA
C21_Witness ==
    /\ pc = "done"
    /\ libst["libB"] = "skipped"
    /\ "libB" \in LibsWithoutMain
    /\ libst["libA"] = "done"
    /\ bst[<<"libA", "npm">>] = "done"


(***************************************************************************)
(* Working-directory exclusion                                             *)
(***************************************************************************)
\* publish tasks that are inside withWorkingDirectory
HoldsDirectory == {d \in Dists : pst[d] = "run"}

\* C22: while a publish task holds a scoped working-directory change no other
\* working-directory-dependent operation runs: no two publish tasks hold a
\* directory change at the same time, every attempt of a publish command
\* starts in the output directory of its distribution, and every registry
\* build completes with the project root as working directory
C22_WorkingDirExclusion ==
    /\ [](Cardinality(HoldsDirectory) <= 1)
    /\ [][\A d \in Dists : att'[d] > att[d] => cwd' = d]_vars
    /\ [][\A d \in Dists :
            (bst[d] = "run" /\ bst'[d] = "done") => cwd = PROJECT_ROOT]_vars


(***************************************************************************)
(* Retry policy of runCommand                                              *)
(***************************************************************************)
\* C23: runCommand applies a bounded retry policy of 3 attempts: a publish
\* command is executed at most 3 times in total, and when the command has
\* failed on its last attempt the failure is rethrown to the caller, which
\* ends the cycle in the error handler
C23_ThreeAttempts ==
    /\ [](\A d \in Dists : att[d] <= 3)
    /\ [][\A d \in Dists :
            (pst[d] = "run" /\ pst'[d] = "failed") => pc' = "exit1"]_vars


(***************************************************************************)
(* Successive invocations of relidler() on the same project                *)
(***************************************************************************)
\* bound on the writes of the disableBump token after which no further
\* invocation is started
MaxTokenWrites == 4

RerunArgsSet ==
    [dev : BOOLEAN,
     dryRun : {"undef"},
     registry : {"undef"},
     bump : {<<>>},
     parallel : {"undef"}]

RerunFileSet ==
    Files({"true", "false", "none"},
          UserConfigs(BOOLEAN, {"npm"}, {FALSE}, {"autoPatch"},
                      {"main-project-only", "main-and-libs"},
                      {<<>>, <<LibA>>}))

RerunInit ==
    /\ CycleStart(RerunArgsSet, RerunFileSet, {{}},
                  {[p \in Paths |-> V123]}, {Paths})
    /\ VerIdle

\* the process has ended (normally or through handleBuildError) and relidler()
\* is invoked again on the same project: the files on disk are kept, the
\* state of the process starts afresh; cfgWrites keeps the writes of the
\* earlier invocations
Reinvoke ==
    /\ pc \in {"done", "exit1"}
    /\ Len(cfgWrites) < MaxTokenWrites
    /\ pc' = "start"
    /\ args' \in RerunArgsSet
    /\ config' = DEFAULT_CONFIG
    /\ cwd' = PROJECT_ROOT
    /\ wrote' = {}
    /\ mainPhase' = "idle"
    /\ libst' = [l \in LibNames |-> "none"]
    /\ libPool' = 0
    /\ libErr' = FALSE
    /\ bst' = NoTasks
    /\ pst' = NoTasks
    /\ att' = [d \in Dists |-> 0]
    /\ orig' = [d \in Dists |-> PROJECT_ROOT]
    /\ UNCHANGED <<file, dirs, lits, present, cfgWrites, verVars>>

RerunNext == Next \/ Reinvoke

SpecRerun == RerunInit /\ [][RerunNext]_vars

\* C24: double-bump protection across invocations: a bump sets disableBump to
\* true, and every following invocation skips the bump until a cycle
\* completes finalize and sets it to false again; hence between two writes of
\* true by a bump there is a write of false by a completed finalize
C24_NoDoubleBump ==
    /\ [][lits' # lits => LoadConfig(file').disableBump]_vars
    /\ [](\A i \in 1..(Len(cfgWrites) - 1) :
             ~(cfgWrites[i] = "true" /\ cfgWrites[i + 1] = "true"))


(***************************************************************************)
(* Concurrency of the task pools                                           *)
(***************************************************************************)
\* registry builds of owner o that are running
RunningBuilds(o) == {r \in Regs : bst[<<o, r>>] = "run"}

\* library tasks that are running
RunningLibs == {l \in LibNames : libst[l] \in {"build", "pub"}}

\* C25: the registry builds of the main project and of any single library
\* never overlap unless parallel execution is enabled (pool of 1, otherwise
\* 2), and the number of library tasks running at the same time never exceeds
\* the library pool, which is 1 when parallel is explicitly false, otherwise
\* max(1, floor(cores * 0.75)) with parallel requested and
\* max(1, floor(cores * 0.5)) without
C25_ConcurrencyBounds ==
    /\ \A o \in Owners :
          Cardinality(RunningBuilds(o)) <= (IF args.parallel = "true" THEN 2 ELSE 1)
    /\ libPool > 0 =>
          /\ Cardinality(RunningLibs) <= libPool
          /\ \E cores \in 1..MaxCpus :
                libPool = CASE args.parallel = "false" -> 1
                            [] args.parallel = "true" ->
                                 IF (cores * 3) \div 4 >= 1
                                 THEN (cores * 3) \div 4 ELSE 1
                            [] OTHER ->
                                 IF cores \div 2 >= 1 THEN cores \div 2 ELSE 1

\* parallel execution is not requested, the library pool is 1: libA is being
\* built while the task of libB waits
C25_Witness ==
    /\ args.parallel # "true"
    /\ libPool = 1
    /\ libst["libA"] = "build"
    /\ libst["libB"] = "idle"
    /\ RunningBuilds("libA") # {}


(***************************************************************************)
(* Unrecognized registry value                                             *)
(***************************************************************************)
KnownRegistries == {"npm", "jsr", "npm-jsr"}

\* C26: an unrecognized registry value does not abort the cycle and falls
\* back to building for both known registries: in a cycle that has completed
\* with such a value, both the NPM and the JSR distribution have been built
\* for the main project and for every configured library with a main path
C26_UnknownRegistryBuildsBoth ==
    (pc = "done" /\ config.registry \notin KnownRegistries /\ ~libErr) =>
        /\ config.buildPublishMode \in {"main-project-only", "main-and-libs"}
              => \A r \in Regs : bst[<<"main", r>>] = "done"
        /\ config.buildPublishMode \in {"libs-only", "main-and-libs"}
              => \A l \in LibSet(Stored) \ LibsWithoutMain :
                    \A r \in Regs : bst[<<l, r>>] = "done"


(***************************************************************************)
(* Import rewriting on the text of a file                                  *)
(***************************************************************************)
\* The content of a file is a sequence of characters; a token stands for a
\* run of characters that never matters in part: the keywords import, export
\* and from, a quote "Q", an identifier "x", a semicolon, and three paths:
\* "P" is a relative path into the source directory of library libA, "L" a
\* relative path elsewhere, "n" a package name. Offsets count from 0.
MaxStatements == 3

\* String.prototype.indexOf: offset of the first occurrence, -1 when absent
IndexOf(text, pat) ==
    LET hits == {p \in 0..(Len(text) - Len(pat)) :
                    SubSeq(text, p + 1, p + Len(pat)) = pat}
    IN IF hits = {} THEN -1
       ELSE CHOOSE p \in hits : \A q \in hits : p <= q

\* importRegex.exec(content) with the given lastIndex: the first keyword
\* import or export, the shortest text up to a from followed by a quoted,
\* non-empty specifier. group1Start is the offset of capture group 1.
importRegex(content, lastIndex) ==
    LET n      == Len(content)
        starts == {i \in (lastIndex + 1)..n : content[i] \in {"import", "export"}}
        i      == CHOOSE a \in starts : \A b \in starts : a <= b
        froms  == {j \in (i + 1)..n :
                      /\ content[j] = "from"
                      /\ j + 2 <= n
                      /\ content[j + 1] = "Q"
                      /\ content[j + 2] # "Q"
                      /\ \E k \in (j + 3)..n : content[k] = "Q"}
        j      == CHOOSE a \in froms : \A b \in froms : a <= b
        closes == {k \in (j + 3)..n : content[k] = "Q"}
        k      == CHOOSE a \in closes : \A b \in closes : a <= b
    IN IF starts = {} \/ froms = {}
       THEN [found |-> FALSE]
       ELSE [found |-> TRUE,
             index |-> i - 1,
             text |-> SubSeq(content, i, k),
             group1 |-> SubSeq(content, j + 2, k - 1),
             group1Start |-> j + 1,
             lastIndex |-> k]

\* the loop "while ((match = importRegex.exec(content)) !== null)": imports
\* that are not package imports, in order of appearance
RECURSIVE ExtractImports(_, _)
ExtractImports(content, lastIndex) ==
    LET match == importRegex(content, lastIndex) IN
    IF ~match.found THEN <<>>
    ELSE LET importPath == match.group1
             rest == ExtractImports(content, match.lastIndex)
         IN IF importPath[1] \notin {"P", "L"} THEN rest
            ELSE << [importPath |-> importPath,
                     matchStart |-> match.index,
                     importPathIndex |-> IndexOf(match.text, importPath)] >>
                 \o rest

\* the library an import path resolves into: libA for a path into its source
\* directory, "none" otherwise
ImportedLib(importPath) == IF importPath[1] = "P" THEN "libA" ELSE "none"

\* the pMap over the imports and the filter of its null results
validReplacements(imports) ==
    LET one(info) ==
            LET importPathStart == info.matchStart + info.importPathIndex
                importPathEnd   == importPathStart + Len(info.importPath)
            IN [start |-> importPathStart, end |-> importPathEnd,
                replacement |-> <<ImportedLib(info.importPath)>>]
    IN SelectSeq([i \in DOMAIN imports |-> one(imports[i])],
                 LAMBDA r : r.replacement # <<"none">>)

\* validReplacements.sort((a, b) => b.start - a.start)
RECURSIVE SortByStartDescending(_)
SortByStartDescending(q) ==
    IF q = <<>> THEN <<>>
    ELSE LET best == {i \in DOMAIN q : \A j \in DOMAIN q : q[j].start <= q[i].start}
             i == CHOOSE a \in best : \A b \in best : a <= b
         IN <<q[i]>> \o SortByStartDescending(
                 SubSeq(q, 1, i - 1) \o SubSeq(q, i + 1, Len(q)))

\* the splicing loop: newContent.substring(0, start) + replacement +
\* newContent.substring(end) for each replacement in turn
RECURSIVE applyReplacements(_, _)
applyReplacements(content, replacements) ==
    IF replacements = <<>> THEN content
    ELSE LET r == Head(replacements)
             newContent == SubSeq(content, 1, r.start) \o r.replacement
                             \o SubSeq(content, r.end + 1, Len(content))
         IN applyReplacements(newContent, Tail(replacements))

\* processLibraryImportsInFile on the text of a file of another library
processLibraryImportsInFileText(content) ==
    LET imports == ExtractImports(content, 0)
        valid   == validReplacements(imports)
    IN IF imports = <<>> \/ valid = <<>>
       THEN [modified |-> FALSE, replacements |-> <<>>, newContent |-> content]
       ELSE [modified |-> TRUE,
             replacements |-> SortByStartDescending(valid),
             newContent |-> applyReplacements(content,
                                              SortByStartDescending(valid))]

ImportPaths == {"P", "L", "n"}

\* statements of a module: a side-effect import, an import or re-export with
\* a from clause, and other code
Statements ==
    {<<"import", "Q", p, "Q", ";">> : p \in ImportPaths}
    \cup {<<k, "x", "from", "Q", p, "Q", ";">> :
              k \in {"import", "export"}, p \in ImportPaths}
    \cup {<<"x", ";">>}

RECURSIVE Modules(_)
Modules(n) ==
    IF n = 0 THEN {<<>>}
    ELSE LET shorter == Modules(n - 1)
         IN shorter \cup {m \o s : m \in shorter, s \in Statements}

SpliceInit ==
    /\ pc = "processLibraryImportsInFile"
    /\ call \in [fn : {"processLibraryImportsInFile"},
                 content : Modules(MaxStatements)]
    /\ ret = NoCall
    /\ EngineIdle

ProcessLibraryImportsInFile ==
    /\ pc = "processLibraryImportsInFile"
    /\ ret' = processLibraryImportsInFileText(call.content)
    /\ pc' = "returned"
    /\ UNCHANGED <<call, engineVars>>

SpliceNext == ProcessLibraryImportsInFile

SpecSplice == SpliceInit /\ [][SpliceNext]_vars

\* the ranges [start, end) of the specifiers, inside their quotes, of the
\* imports that resolve into another library
RECURSIVE SpecifierRanges(_, _)
SpecifierRanges(content, lastIndex) ==
    LET match == importRegex(content, lastIndex) IN
    IF ~match.found THEN {}
    ELSE (IF ImportedLib(match.group1) # "none"
          THEN {[start |-> match.group1Start,
                 end |-> match.group1Start + Len(match.group1)]}
          ELSE {})
         \cup SpecifierRanges(content, match.lastIndex)

\* the content with exactly the specifiers of SpecifierRanges replaced
RECURSIVE SpecifiersReplaced(_, _)
SpecifiersReplaced(content, lastIndex) ==
    LET match == importRegex(content, lastIndex) IN
    IF ~match.found THEN SubSeq(content, lastIndex + 1, Len(content))
    ELSE SubSeq(content, lastIndex + 1, match.group1Start)
         \o (IF ImportedLib(match.group1) # "none"
             THEN <<ImportedLib(match.group1)>> ELSE match.group1)
         \o SubSeq(content, match.group1Start + Len(match.group1) + 1,
                   match.lastIndex)
         \o SpecifiersReplaced(content, match.lastIndex)

\* C27: import-rewrite splicing preserves all non-specifier text: each
\* computed replacement range [start, end) covers exactly the characters of
\* an import specifier inside its quotes, and applying the replacements in
\* descending start order yields the original content with each such
\* specifier replaced and every other character unchanged, in the same order
C27_SplicePreservesText ==
    (pc = "returned" /\ call.fn = "processLibraryImportsInFile") =>
        /\ {[start |-> ret.replacements[i].start,
             end |-> ret.replacements[i].end] :
               i \in DOMAIN ret.replacements}
             = SpecifierRanges(call.content, 0)
        /\ ret.newContent = SpecifiersReplaced(call.content, 0)


(***************************************************************************)
(* The library of an output directory                                      *)
(***************************************************************************)
\* A path is the sequence of its segments. The project root is any absolute
\* directory of at most MaxRootDepth segments.
MaxRootDepth == 3

RootSegments == {"home", "libs", "proj"}

RECURSIVE RootPaths(_)
RootPaths(n) ==
    IF n = 1 THEN {<<s>> : s \in RootSegments}
    ELSE LET shorter == RootPaths(n - 1)
         IN shorter \cup {p \o <<s>> : p \in shorter, s \in RootSegments}

FolderNames == {"a", "b"}

\* positions of a segment "libs" that another segment follows: the places
\* where the path includes "/libs/"
LibsSegments(filePath) ==
    {i \in 1..(Len(filePath) - 1) : filePath[i] = "libs"}

\* determineDistName(filePath, isJsr) for a boolean isJsr
determineDistName(filePath, isJsr) ==
    LET baseDistName  == IF isJsr THEN <<"dist-jsr">> ELSE <<"dist-npm">>
        isLibraryPath == LibsSegments(filePath) # {}
        first   == CHOOSE i \in LibsSegments(filePath) :
                       \A j \in LibsSegments(filePath) : i <= j
        libName == filePath[first + 1]
    IN IF ~isLibraryPath THEN baseDistName
       ELSE <<"dist-libs", libName, IF isJsr THEN "jsr" ELSE "npm">>

\* library_bundleUsingUnified up to the invocation of the builder: the
\* library name taken from the distribution name, or the error thrown
library_bundleUsingUnified(outdirBin, builder, isJsr) ==
    LET distName == determineDistName(outdirBin, isJsr)
        matched  == Len(distName) >= 3 /\ distName[1] = "dist-libs"
    IN IF ~matched
       THEN [threw |-> TRUE, libName |-> "none", builder |-> "none"]
       ELSE [threw |-> FALSE, libName |-> distName[2], builder |-> builder]

\* the output directory libraries_buildPublish and library_build*Dist give
\* to the builder: <root>/dist-libs/<folder>/<npm|jsr>/bin
LibOutdirBin(root, folderName, registry) ==
    root \o <<"dist-libs", folderName, registry, "bin">>

UnifiedBuilders == {"rollup", "untyped", "mkdist", "copy"}

DistNameInit ==
    /\ pc = "library_bundleUsingUnified"
    /\ call \in {c \in [fn : {"library_bundleUsingUnified"},
                        root : RootPaths(MaxRootDepth),
                        folderName : FolderNames,
                        registry : Regs,
                        builder : UnifiedBuilders] :
                    c.registry = "jsr" => c.builder = "mkdist"}
    /\ ret = NoCall
    /\ EngineIdle

BundleUsingUnified ==
    /\ pc = "library_bundleUsingUnified"
    /\ ret' = library_bundleUsingUnified(
                  LibOutdirBin(call.root, call.folderName, call.registry),
                  call.builder, call.registry = "jsr")
    /\ pc' = "returned"
    /\ UNCHANGED <<call, engineVars>>

DistNameNext == BundleUsingUnified

SpecDistName == DistNameInit /\ [][DistNameNext]_vars

\* C28: a library build that selects a unified sub-builder resolves the
\* library it belongs to from its output directory
\* <root>/dist-libs/<folder>/<npm|jsr>/bin and reaches the builder; it never
\* fails with "Could not determine library name"
C28_LibraryNameResolved ==
    (pc = "returned" /\ call.fn = "library_bundleUsingUnified") =>
        /\ ~ret.threw
        /\ ret.libName = call.folderName
        /\ ret.builder = call.builder


(***************************************************************************)
(* Registry of the library builds                                          *)
(***************************************************************************)
\* the registries a registry value stands for
RegistriesOf(registry) ==
    CASE registry = "npm-jsr" -> {"npm", "jsr"}
      [] registry = "npm" -> {"npm"}
      [] registry = "jsr" -> {"jsr"}
      [] OTHER -> {}

\* C29: the libraries are built and published for the registry of the
\* CLI-merged configuration: with --registry R on the command line, no
\* library distribution is built or published for a registry outside R,
\* whatever registry the config file names
C29_LibsUseMergedRegistry ==
    args.registry \in KnownRegistries =>
        \A d \in LibNames \X Regs :
            (bst[d] # "none" \/ pst[d] # "none")
                => d[2] \in RegistriesOf(args.registry)


(***************************************************************************)
(* Incremental re-pack (pack mode with --update)                           *)
(***************************************************************************)
\* getFileMetadata(file): modification time and content hash of the source
getFileMetadata(f) ==
    [updatedAt |-> f.mtime, updatedHash |-> hashFile(f.content)]

\* the entry the pack loop records for a file that it processes
ProcessedEntry(relPath, f) ==
    LET meta == readFileForTemplate(relPath, f)
    IN [type |-> meta.type, content |-> meta.content,
        binaryHash |-> meta.binaryHash, metadata |-> getFileMetadata(f)]

\* the template module emitted for the recorded entries
EmitTemplate(filesRecord) ==
    [i \in DOMAIN filesRecord |-> EmitEntry(filesRecord[i])]

\* update mode, "Load existing templates": the DLER_TEMPLATES export of the
\* aggregator, or nothing when the module has no such export or does not load
ExistingTemplates(emitted, whitelabel) ==
    IF whitelabel = "DLER" /\ ImportOk(emitted)
    THEN [i \in DOMAIN emitted |-> ImportedMeta(emitted[i])]
    ELSE <<>>

\* the test "Skip if file hasn't changed (same hash) or if source file is
\* older" of the pack loop
ReusesExisting(existingFiles, i, fileMetadata) ==
    /\ i \in DOMAIN existingFiles
    /\ existingFiles[i].metadata.updatedHash # <<>>
    /\ fileMetadata.updatedHash # <<>>
    /\ \/ existingFiles[i].metadata.updatedHash = fileMetadata.updatedHash
       \/ fileMetadata.updatedAt <= existingFiles[i].metadata.updatedAt

\* the per-file loop of pack mode without --files
PackLoop(src, existingFiles) ==
    [i \in DOMAIN TplOrder |->
        IF ReusesExisting(existingFiles, i, getFileMetadata(src[TplOrder[i]]))
        THEN existingFiles[i]
        ELSE ProcessedEntry(TplOrder[i], src[TplOrder[i]])]

\* a first pack into an empty output directory
FullPack(src) == EmitTemplate(PackLoop(src, <<>>))

\* pack mode with --update over the output of an earlier pack
UpdatePack(src, emitted, whitelabel) ==
    EmitTemplate(PackLoop(src, ExistingTemplates(emitted, whitelabel)))

\* modification times: the first pack sees time 1
Times == 0..2

Whitelabels == {"DLER", "ACME"}

\* a template directory at the time of the first pack
FirstSources(text) ==
    [q \in TplFiles |->
        CASE q = "tpl/a.txt" -> OnDisk(text, 1)
          [] q = "tpl/b.json" -> OnDisk(<<"a">>, 1)
          [] OTHER -> OnDisk(<<"bytes">>, 1)]

\* source edits between the two packs: the text file or the binary file gets
\* a content and a modification time
Edits ==
    [file : {"tpl/a.txt", "tpl/c.png"},
     content : {<<"a">>, <<"e", "d">>},
     mtime : Times]

Edited(src, e) == [src EXCEPT ![e.file] = OnDisk(e.content, e.mtime)]

RepackInit ==
    /\ pc = "firstPack"
    /\ \/ call \in [fn : {"repack"},
                    src : {FirstSources(t) : t \in Texts},
                    edit : {[file |-> "tpl/c.png", content |-> <<"bytes">>,
                             mtime |-> 1]},
                    whitelabel : {"DLER"}]
       \/ call \in [fn : {"repack"},
                    src : {FirstSources(<<"a">>), FirstSources(<<"a", "LF">>)},
                    edit : Edits,
                    whitelabel : Whitelabels]
    /\ ret = NoCall
    /\ EngineIdle

\* the first pack of the template directory
FirstPack ==
    /\ pc = "firstPack"
    /\ ret' = [first |-> FullPack(call.src), second |-> <<>>]
    /\ pc' = "edit"
    /\ UNCHANGED <<call, engineVars>>

\* the sources are edited, then packed again with --update
Repack ==
    /\ pc = "edit"
    /\ ret' = [ret EXCEPT !.second =
                  UpdatePack(Edited(call.src, call.edit), ret.first,
                             call.whitelabel)]
    /\ pc' = "repacked"
    /\ UNCHANGED <<call, engineVars>>

RepackNext == FirstPack \/ Repack

SpecRepack == RepackInit /\ [][RepackNext]_vars

\* type, content and binary hash of an entry of a generated template, the
\* content being the value the module gives it
EntryOf(emittedEntry) ==
    [type |-> emittedEntry.type,
     content |-> IF emittedEntry.type = "text"
                 THEN TemplateLiteralValue(emittedEntry.content)
                 ELSE [ok |-> TRUE, value |-> emittedEntry.content],
     binaryHash |-> emittedEntry.binaryHash]

\* the entries of the re-pack are those of a full pack of the same sources
SameAsFullPack(second, src) ==
    \A i \in DOMAIN TplOrder : EntryOf(second[i]) = EntryOf(FullPack(src)[i])

\* C30: an incremental re-pack without --files is equivalent to a fresh pack
\* of the current source tree: every file entry has the type, content and
\* binary hash a full pack of the same sources would produce, for any history
\* of source edits and any whitelabel value
C30_RepackEqualsFullPack ==
    pc = "repacked" =>
        SameAsFullPack(ret.second, Edited(call.src, call.edit))

====
